---- MODULE Spec2Model ----
(***************************************************************************)
(* Market-making simulator: order book, risk manager, market maker, PnL    *)
(* tracker and the step loop of MarketSimulator, with the process-wide     *)
(* numpy random stream the simulators draw from.                           *)
(*                                                                         *)
(* Python floats are modelled as exact rationals <<n, d>> (d > 0, lowest   *)
(* terms), Python's None as the empty tuple.                               *)
(***************************************************************************)
EXTENDS Integers, Sequences, FiniteSets, TLC

VARIABLES
    np_random,      \* state of the module-level numpy generator (np.random)
    order_book,     \* [SimIds -> OrderBook fields]
    market_maker,   \* [SimIds -> MarketMaker fields]
    pnl_tracker,    \* [SimIds -> PnLTracker fields]
    simulator,      \* [SimIds -> MarketSimulator fields]
    last_call,      \* arguments and draws of the most recent step or run call
    stream,         \* who seeded np.random last, and how far each instance ran on its own seed
    risk_call,      \* a direct RiskManager.apply call: configuration, arguments, result
    quote_call,     \* result of a direct MarketMaker.get_quotes call
    fill_call,      \* a direct execute_bid_fill / execute_ask_fill call: method, arguments
    book_call,      \* a direct OrderBook call: method, argument, book before, outcome
    api_call        \* a read or run call of another public method: method, argument,
                    \* value returned

vars == <<np_random, order_book, market_maker, pnl_tracker, simulator,
          last_call, stream, risk_call, quote_call, fill_call, book_call, api_call>>

-----------------------------------------------------------------------------
(* Bounds of the model *)

MaxSteps == 3       \* steps per simulator in Spec
MaxTwoSteps == 2    \* steps per simulator in SpecTwo
RngBits == 4        \* width of the modelled generator state
MaxVolume == 30     \* total quantity of the direct fills in SpecMaker
MaxBookCalls == 3   \* direct order-book calls in SpecBook
MaxBookSteps == 1   \* simulator steps in SpecBook
MaxTrades == 2      \* trades in a ledger that takes direct calls
MaxSnapshots == 2   \* snapshots in a ledger that takes direct calls
MaxRunSteps == 3    \* steps of the driven simulator in SpecRun

SimIds == {1, 2}

None == <<>>

-----------------------------------------------------------------------------
(* Exact rational arithmetic standing for float arithmetic *)

RECURSIVE GCD(_, _)
GCD(a, b) == IF b = 0 THEN a ELSE GCD(b, a % b)

IAbs(n) == IF n < 0 THEN -n ELSE n

Norm(n, d) ==
    LET s == IF d < 0 THEN -1 ELSE 1
        g == GCD(IAbs(n), IAbs(d))
    IN  <<(s * n) \div g, (s * d) \div g>>

R(n) == <<n, 1>>
Q(n, d) == Norm(n, d)

Zero == R(0)
One == R(1)

LCM(a, b) == (a \div GCD(a, b)) * b

RAdd(a, b) ==
    LET l == LCM(a[2], b[2])
    IN  Norm(a[1] * (l \div a[2]) + b[1] * (l \div b[2]), l)
RNeg(a) == <<-a[1], a[2]>>
RSub(a, b) == RAdd(a, RNeg(b))
RMul(a, b) ==
    LET g == GCD(IAbs(a[1]), b[2])
        h == GCD(IAbs(b[1]), a[2])
    IN  Norm((a[1] \div g) * (b[1] \div h), (a[2] \div h) * (b[2] \div g))
RInv(a) == IF a[1] < 0 THEN <<-a[2], -a[1]>> ELSE <<a[2], a[1]>>
RDiv(a, b) == RMul(a, RInv(b))
RAbs(a) == <<IAbs(a[1]), a[2]>>
RLe(a, b) ==
    LET l == LCM(a[2], b[2])
    IN  a[1] * (l \div a[2]) <= b[1] * (l \div b[2])
RLt(a, b) == ~RLe(b, a)
RMin(a, b) == IF RLe(a, b) THEN a ELSE b
RMax(a, b) == IF RLe(b, a) THEN a ELSE b

ISqrt(n) == CHOOSE k \in 0..n : k * k = n
RSqrt(a) == <<ISqrt(a[1]), ISqrt(a[2])>>

-----------------------------------------------------------------------------
(* The numpy generator behind np.random.seed / random / normal.  Its state *)
(* is a register of RngBits bits; every draw reads the low bit and rotates *)
(* the register, so a state fixes the whole stream that follows it.        *)

RngSize == 2 ^ RngBits
RngStates == 0..(RngSize - 1)

Seeds == {1, 2}

rng_advance(state) == (state \div 2) + (state % 2) * (RngSize \div 2)

\* np.random.seed(s): the state is a function of the seed alone
seed(s) == (5 * s + 1) % RngSize

\* np.random.random(): a uniform value in [0, 1)
random(state) ==
    [value |-> IF state % 2 = 0 THEN Q(1, 4) ELSE Q(3, 4),
     state |-> rng_advance(state)]

\* np.random.normal(loc, scale) = loc + scale * (standard normal draw)
normal(state, loc, scale) ==
    [value |-> RAdd(loc, RMul(scale, IF state % 2 = 0 THEN R(-1) ELSE R(1))),
     state |-> rng_advance(state)]

-----------------------------------------------------------------------------
(* OrderBook *)

OrderBook(initial_mid, spread, depth_per_level, num_levels) ==
    [mid_price |-> initial_mid, spread |-> spread,
     depth_per_level |-> depth_per_level, num_levels |-> num_levels]

get_mid_price(ob) == ob.mid_price

get_best_bid(ob) == RSub(ob.mid_price, ob.spread)

get_best_ask(ob) == RAdd(ob.mid_price, ob.spread)

get_bid_ask_spread(ob) == RMul(R(2), ob.spread)

get_depth_at_level(ob, level) ==
    IF level >= ob.num_levels THEN <<Zero, Zero>>
    ELSE <<ob.depth_per_level, ob.depth_per_level>>

update_mid_price(ob, new_mid) == [ob EXCEPT !.mid_price = new_mid]

\* The outcome of a call: the value it returned, or the exception it raised
\* (the other field is None; the exception is kept as a one-element tuple).
Returned(value) == [returned |-> value, raised |-> None]
Raised(exception) == [returned |-> None, raised |-> <<exception>>]

\* mutant: the impact of a large order widens the spread instead of moving
\* the mid
execute_market_buy_widening(ob, quantity) ==
    LET available_depth == ob.depth_per_level
        executed_qty == RMin(quantity, available_depth)
        execution_price == get_best_ask(ob)
    IN  IF RLt(available_depth, quantity)
        THEN IF available_depth = Zero
             THEN [order_book |-> ob, outcome |-> Raised("ZeroDivisionError")]
             ELSE LET price_impact ==
                          RMul(RMul(RSub(RDiv(quantity, available_depth), One), ob.spread),
                               Q(1, 2))
                  IN  [order_book |-> [ob EXCEPT !.spread = RAdd(@, price_impact)],
                       outcome |-> Returned(<<execution_price, executed_qty>>)]
        ELSE [order_book |-> ob, outcome |-> Returned(<<execution_price, executed_qty>>)]

\* quantity / available_depth is a float division: it raises
\* ZeroDivisionError when available_depth is 0, before mid_price is assigned
execute_market_buy(ob, quantity) ==
    LET available_depth == ob.depth_per_level
        executed_qty == RMin(quantity, available_depth)
        execution_price == get_best_ask(ob)
    IN  IF RLt(available_depth, quantity)
        THEN IF available_depth = Zero
             THEN [order_book |-> ob, outcome |-> Raised("ZeroDivisionError")]
             ELSE LET price_impact ==
                          RMul(RMul(RSub(RDiv(quantity, available_depth), One), ob.spread),
                               Q(1, 2))
                  IN  [order_book |-> [ob EXCEPT !.mid_price = RAdd(@, price_impact)],
                       outcome |-> Returned(<<execution_price, executed_qty>>)]
        ELSE [order_book |-> ob, outcome |-> Returned(<<execution_price, executed_qty>>)]

execute_market_sell(ob, quantity) ==
    LET available_depth == ob.depth_per_level
        executed_qty == RMin(quantity, available_depth)
        execution_price == get_best_bid(ob)
    IN  IF RLt(available_depth, quantity)
        THEN IF available_depth = Zero
             THEN [order_book |-> ob, outcome |-> Raised("ZeroDivisionError")]
             ELSE LET price_impact ==
                          RMul(RMul(RSub(RDiv(quantity, available_depth), One), ob.spread),
                               Q(1, 2))
                  IN  [order_book |-> [ob EXCEPT !.mid_price = RSub(@, price_impact)],
                       outcome |-> Returned(<<execution_price, executed_qty>>)]
        ELSE [order_book |-> ob, outcome |-> Returned(<<execution_price, executed_qty>>)]

-----------------------------------------------------------------------------
(* RiskManager *)

RiskManager(enable_kill_switch, drawdown_limit, enable_size_throttle, min_throttle) ==
    [enable_kill_switch |-> enable_kill_switch, drawdown_limit |-> drawdown_limit,
     enable_size_throttle |-> enable_size_throttle, min_throttle |-> min_throttle]

\* mutant: the drawdown comparison is strict
apply_strict(rm, bid_price, bid_size, ask_price, ask_size, inventory, max_inventory, cash_pnl) ==
    IF /\ rm.enable_kill_switch
       /\ rm.drawdown_limit # None
       /\ RLt(cash_pnl, RNeg(RAbs(rm.drawdown_limit)))
    THEN [bid_price |-> bid_price, bid_size |-> Zero,
          ask_price |-> ask_price, ask_size |-> Zero, is_active |-> FALSE]
    ELSE IF rm.enable_size_throttle /\ RLt(Zero, max_inventory)
    THEN LET inv_ratio == RMin(One, RDiv(RAbs(inventory), max_inventory))
             scale == RMax(rm.min_throttle, RSub(One, inv_ratio))
         IN  [bid_price |-> bid_price, bid_size |-> RMul(bid_size, scale),
              ask_price |-> ask_price, ask_size |-> RMul(ask_size, scale),
              is_active |-> TRUE]
    ELSE [bid_price |-> bid_price, bid_size |-> bid_size,
          ask_price |-> ask_price, ask_size |-> ask_size, is_active |-> TRUE]

\* mutant: the sign of the configured limit is not ignored
apply_no_abs(rm, bid_price, bid_size, ask_price, ask_size, inventory, max_inventory, cash_pnl) ==
    IF /\ rm.enable_kill_switch
       /\ rm.drawdown_limit # None
       /\ RLe(cash_pnl, RNeg(rm.drawdown_limit))
    THEN [bid_price |-> bid_price, bid_size |-> Zero,
          ask_price |-> ask_price, ask_size |-> Zero, is_active |-> FALSE]
    ELSE IF rm.enable_size_throttle /\ RLt(Zero, max_inventory)
    THEN LET inv_ratio == RMin(One, RDiv(RAbs(inventory), max_inventory))
             scale == RMax(rm.min_throttle, RSub(One, inv_ratio))
         IN  [bid_price |-> bid_price, bid_size |-> RMul(bid_size, scale),
              ask_price |-> ask_price, ask_size |-> RMul(ask_size, scale),
              is_active |-> TRUE]
    ELSE [bid_price |-> bid_price, bid_size |-> bid_size,
          ask_price |-> ask_price, ask_size |-> ask_size, is_active |-> TRUE]

\* mutant: a killed quote is returned with its prices zeroed as well
apply_zero_prices(rm, bid_price, bid_size, ask_price, ask_size, inventory, max_inventory, cash_pnl) ==
    IF /\ rm.enable_kill_switch
       /\ rm.drawdown_limit # None
       /\ RLe(cash_pnl, RNeg(RAbs(rm.drawdown_limit)))
    THEN [bid_price |-> Zero, bid_size |-> Zero,
          ask_price |-> Zero, ask_size |-> Zero, is_active |-> FALSE]
    ELSE IF rm.enable_size_throttle /\ RLt(Zero, max_inventory)
    THEN LET inv_ratio == RMin(One, RDiv(RAbs(inventory), max_inventory))
             scale == RMax(rm.min_throttle, RSub(One, inv_ratio))
         IN  [bid_price |-> bid_price, bid_size |-> RMul(bid_size, scale),
              ask_price |-> ask_price, ask_size |-> RMul(ask_size, scale),
              is_active |-> TRUE]
    ELSE [bid_price |-> bid_price, bid_size |-> bid_size,
          ask_price |-> ask_price, ask_size |-> ask_size, is_active |-> TRUE]

\* mutant: the throttle looks at the signed inventory
apply_signed_inventory(rm, bid_price, bid_size, ask_price, ask_size, inventory, max_inventory, cash_pnl) ==
    IF /\ rm.enable_kill_switch
       /\ rm.drawdown_limit # None
       /\ RLe(cash_pnl, RNeg(RAbs(rm.drawdown_limit)))
    THEN [bid_price |-> bid_price, bid_size |-> Zero,
          ask_price |-> ask_price, ask_size |-> Zero, is_active |-> FALSE]
    ELSE IF rm.enable_size_throttle /\ RLt(Zero, max_inventory)
    THEN LET inv_ratio == RMin(One, RDiv(inventory, max_inventory))
             scale == RMax(rm.min_throttle, RSub(One, inv_ratio))
         IN  [bid_price |-> bid_price, bid_size |-> RMul(bid_size, scale),
              ask_price |-> ask_price, ask_size |-> RMul(ask_size, scale),
              is_active |-> TRUE]
    ELSE [bid_price |-> bid_price, bid_size |-> bid_size,
          ask_price |-> ask_price, ask_size |-> ask_size, is_active |-> TRUE]

\* mutant: the throttle is applied whether or not it is enabled
apply_throttle_always(rm, bid_price, bid_size, ask_price, ask_size, inventory, max_inventory, cash_pnl) ==
    IF /\ rm.enable_kill_switch
       /\ rm.drawdown_limit # None
       /\ RLe(cash_pnl, RNeg(RAbs(rm.drawdown_limit)))
    THEN [bid_price |-> bid_price, bid_size |-> Zero,
          ask_price |-> ask_price, ask_size |-> Zero, is_active |-> FALSE]
    ELSE IF RLt(Zero, max_inventory)
    THEN LET inv_ratio == RMin(One, RDiv(RAbs(inventory), max_inventory))
             scale == RMax(rm.min_throttle, RSub(One, inv_ratio))
         IN  [bid_price |-> bid_price, bid_size |-> RMul(bid_size, scale),
              ask_price |-> ask_price, ask_size |-> RMul(ask_size, scale),
              is_active |-> TRUE]
    ELSE [bid_price |-> bid_price, bid_size |-> bid_size,
          ask_price |-> ask_price, ask_size |-> ask_size, is_active |-> TRUE]

\* mutant: the kill switch acts whenever a drawdown limit is set
apply_kill_unflagged(rm, bid_price, bid_size, ask_price, ask_size, inventory, max_inventory, cash_pnl) ==
    IF /\ rm.drawdown_limit # None
       /\ RLe(cash_pnl, RNeg(RAbs(rm.drawdown_limit)))
    THEN [bid_price |-> bid_price, bid_size |-> Zero,
          ask_price |-> ask_price, ask_size |-> Zero, is_active |-> FALSE]
    ELSE IF rm.enable_size_throttle /\ RLt(Zero, max_inventory)
    THEN LET inv_ratio == RMin(One, RDiv(RAbs(inventory), max_inventory))
             scale == RMax(rm.min_throttle, RSub(One, inv_ratio))
         IN  [bid_price |-> bid_price, bid_size |-> RMul(bid_size, scale),
              ask_price |-> ask_price, ask_size |-> RMul(ask_size, scale),
              is_active |-> TRUE]
    ELSE [bid_price |-> bid_price, bid_size |-> bid_size,
          ask_price |-> ask_price, ask_size |-> ask_size, is_active |-> TRUE]

apply(rm, bid_price, bid_size, ask_price, ask_size, inventory, max_inventory, cash_pnl) ==
    IF /\ rm.enable_kill_switch
       /\ rm.drawdown_limit # None
       /\ RLe(cash_pnl, RNeg(RAbs(rm.drawdown_limit)))
    THEN [bid_price |-> bid_price, bid_size |-> Zero,
          ask_price |-> ask_price, ask_size |-> Zero, is_active |-> FALSE]
    ELSE IF rm.enable_size_throttle /\ RLt(Zero, max_inventory)
    THEN LET inv_ratio == RMin(One, RDiv(RAbs(inventory), max_inventory))
             scale == RMax(rm.min_throttle, RSub(One, inv_ratio))
         IN  [bid_price |-> bid_price, bid_size |-> RMul(bid_size, scale),
              ask_price |-> ask_price, ask_size |-> RMul(ask_size, scale),
              is_active |-> TRUE]
    ELSE [bid_price |-> bid_price, bid_size |-> bid_size,
          ask_price |-> ask_price, ask_size |-> ask_size, is_active |-> TRUE]

-----------------------------------------------------------------------------
(* MarketMaker *)

MarketMaker(quote_spread, quote_size, max_inventory, inventory_skew_factor, risk_manager) ==
    [quote_spread |-> quote_spread, quote_size |-> quote_size,
     max_inventory |-> max_inventory,
     inventory_skew_factor |-> inventory_skew_factor,
     risk_manager |-> risk_manager,
     inventory |-> Zero, total_buy_value |-> Zero, total_sell_value |-> Zero,
     total_bought |-> Zero, total_sold |-> Zero]

get_inventory(mm) == mm.inventory

get_cash_pnl(mm) == RSub(mm.total_sell_value, mm.total_buy_value)

\* mutant: the net cost is added instead of subtracted
get_total_pnl_added_cost(mm, current_mid) ==
    LET net_cost == RSub(mm.total_buy_value, mm.total_sell_value)
        inventory_value == RMul(mm.inventory, current_mid)
    IN  RAdd(inventory_value, net_cost)

get_total_pnl(mm, current_mid) ==
    LET net_cost == RSub(mm.total_buy_value, mm.total_sell_value)
        inventory_value == RMul(mm.inventory, current_mid)
    IN  RSub(inventory_value, net_cost)

\* mutant: the average sell price divides by everything traded
get_average_sell_price_all_volume(mm) ==
    IF mm.total_sold = Zero THEN None
    ELSE RDiv(mm.total_sell_value, RAdd(mm.total_bought, mm.total_sold))

get_average_buy_price(mm) ==
    IF mm.total_bought = Zero THEN None
    ELSE RDiv(mm.total_buy_value, mm.total_bought)

get_average_sell_price(mm) ==
    IF mm.total_sold = Zero THEN None
    ELSE RDiv(mm.total_sell_value, mm.total_sold)

\* get_quotes, lines 79-90: the risk policy, when one is attached
\* mutant: the policy is given the PnL with the position valued at the bid
risk_adjusted_marked(mm, bid_price, bid_size, ask_price, ask_size) ==
    IF mm.risk_manager # None
    THEN LET r == apply(mm.risk_manager, bid_price, bid_size, ask_price, ask_size,
                        mm.inventory, mm.max_inventory,
                        RAdd(get_cash_pnl(mm), RMul(mm.inventory, bid_price)))
         IN  [bid_price |-> r.bid_price, bid_size |-> r.bid_size,
              ask_price |-> r.ask_price, ask_size |-> r.ask_size]
    ELSE [bid_price |-> bid_price, bid_size |-> bid_size,
          ask_price |-> ask_price, ask_size |-> ask_size]

risk_adjusted(mm, bid_price, bid_size, ask_price, ask_size) ==
    IF mm.risk_manager # None
    THEN LET r == apply(mm.risk_manager, bid_price, bid_size, ask_price, ask_size,
                        mm.inventory, mm.max_inventory, get_cash_pnl(mm))
         IN  [bid_price |-> r.bid_price, bid_size |-> r.bid_size,
              ask_price |-> r.ask_price, ask_size |-> r.ask_size]
    ELSE [bid_price |-> bid_price, bid_size |-> bid_size,
          ask_price |-> ask_price, ask_size |-> ask_size]

\* mutant: the position check looks at the inventory held, not at the
\* inventory after a full fill
get_quotes_late_check(mm, ob) ==
    LET mid == get_mid_price(ob)
        inventory_skew == RMul(mm.inventory, mm.inventory_skew_factor)
        bid_price == RSub(RSub(mid, mm.quote_spread), inventory_skew)
        ask_price == RAdd(RAdd(mid, mm.quote_spread), inventory_skew)
        bid_size == IF RLe(RAbs(mm.inventory), mm.max_inventory)
                    THEN mm.quote_size ELSE Zero
        ask_size == IF RLe(RAbs(mm.inventory), mm.max_inventory)
                    THEN mm.quote_size ELSE Zero
    IN  risk_adjusted(mm, bid_price, bid_size, ask_price, ask_size)

\* mutant: the skew is left out of the ask
get_quotes_unskewed_ask(mm, ob) ==
    LET mid == get_mid_price(ob)
        inventory_skew == RMul(mm.inventory, mm.inventory_skew_factor)
        bid_price == RSub(RSub(mid, mm.quote_spread), inventory_skew)
        ask_price == RAdd(mid, mm.quote_spread)
        bid_size == IF RLe(RAbs(RAdd(mm.inventory, mm.quote_size)), mm.max_inventory)
                    THEN mm.quote_size ELSE Zero
        ask_size == IF RLe(RAbs(RSub(mm.inventory, mm.quote_size)), mm.max_inventory)
                    THEN mm.quote_size ELSE Zero
    IN  risk_adjusted(mm, bid_price, bid_size, ask_price, ask_size)

\* mutant: a side that cannot be filled in full suppresses the other side too
get_quotes_coupled_sizes(mm, ob) ==
    LET mid == get_mid_price(ob)
        inventory_skew == RMul(mm.inventory, mm.inventory_skew_factor)
        bid_price == RSub(RSub(mid, mm.quote_spread), inventory_skew)
        ask_price == RAdd(RAdd(mid, mm.quote_spread), inventory_skew)
        fits == /\ RLe(RAbs(RAdd(mm.inventory, mm.quote_size)), mm.max_inventory)
                /\ RLe(RAbs(RSub(mm.inventory, mm.quote_size)), mm.max_inventory)
        bid_size == IF fits THEN mm.quote_size ELSE Zero
        ask_size == IF fits THEN mm.quote_size ELSE Zero
    IN  risk_adjusted(mm, bid_price, bid_size, ask_price, ask_size)

\* mutant: each side is checked against the position the other side leads to
get_quotes_swapped_limits(mm, ob) ==
    LET mid == get_mid_price(ob)
        inventory_skew == RMul(mm.inventory, mm.inventory_skew_factor)
        bid_price == RSub(RSub(mid, mm.quote_spread), inventory_skew)
        ask_price == RAdd(RAdd(mid, mm.quote_spread), inventory_skew)
        bid_size == IF RLe(RAbs(RSub(mm.inventory, mm.quote_size)), mm.max_inventory)
                    THEN mm.quote_size ELSE Zero
        ask_size == IF RLe(RAbs(RAdd(mm.inventory, mm.quote_size)), mm.max_inventory)
                    THEN mm.quote_size ELSE Zero
    IN  risk_adjusted(mm, bid_price, bid_size, ask_price, ask_size)

get_quotes(mm, ob) ==
    LET mid == get_mid_price(ob)
        inventory_skew == RMul(mm.inventory, mm.inventory_skew_factor)
        bid_price == RSub(RSub(mid, mm.quote_spread), inventory_skew)
        ask_price == RAdd(RAdd(mid, mm.quote_spread), inventory_skew)
        bid_size == IF RLe(RAbs(RAdd(mm.inventory, mm.quote_size)), mm.max_inventory)
                    THEN mm.quote_size ELSE Zero
        ask_size == IF RLe(RAbs(RSub(mm.inventory, mm.quote_size)), mm.max_inventory)
                    THEN mm.quote_size ELSE Zero
    IN  risk_adjusted(mm, bid_price, bid_size, ask_price, ask_size)

\* mutant: a bid fill counts the notional bought as the quantity bought
execute_bid_fill_notional(mm, price, quantity) ==
    [mm EXCEPT !.inventory = RAdd(@, quantity),
               !.total_buy_value = RAdd(@, RMul(price, quantity)),
               !.total_bought = RAdd(@, RMul(price, quantity))]

execute_bid_fill(mm, price, quantity) ==
    [mm EXCEPT !.inventory = RAdd(@, quantity),
               !.total_buy_value = RAdd(@, RMul(price, quantity)),
               !.total_bought = RAdd(@, quantity)]

\* mutant: the quantity sold is added to the quantity bought
execute_ask_fill_wrong_total(mm, price, quantity) ==
    [mm EXCEPT !.inventory = RSub(@, quantity),
               !.total_sell_value = RAdd(@, RMul(price, quantity)),
               !.total_bought = RAdd(@, quantity)]

execute_ask_fill(mm, price, quantity) ==
    [mm EXCEPT !.inventory = RSub(@, quantity),
               !.total_sell_value = RAdd(@, RMul(price, quantity)),
               !.total_sold = RAdd(@, quantity)]

-----------------------------------------------------------------------------
(* PnLTracker *)

PnLTracker == [trades |-> <<>>, inventory_snapshots |-> <<>>]

\* mutant: spread_vs_mid is taken as price - mid on both sides
record_trade_one_sided(tr, timestamp, side, price, quantity, mid_price) ==
    [tr EXCEPT !.trades = Append(@,
        [timestamp |-> timestamp, side |-> side, price |-> price,
         quantity |-> quantity, mid_price |-> mid_price,
         spread_vs_mid |-> RSub(price, mid_price)])]

record_trade(tr, timestamp, side, price, quantity, mid_price) ==
    [tr EXCEPT !.trades = Append(@,
        [timestamp |-> timestamp, side |-> side, price |-> price,
         quantity |-> quantity, mid_price |-> mid_price,
         spread_vs_mid |-> IF side = "sell" THEN RSub(price, mid_price)
                           ELSE RSub(mid_price, price)])]

\* mutant: a snapshot taken at the time of the latest one replaces it
record_inventory_snapshot_latest(tr, timestamp, inventory, mid_price) ==
    LET snapshot == <<timestamp, inventory, mid_price>>
        n == Len(tr.inventory_snapshots)
    IN  IF n > 0 /\ tr.inventory_snapshots[n][1] = timestamp
        THEN [tr EXCEPT !.inventory_snapshots[n] = snapshot]
        ELSE [tr EXCEPT !.inventory_snapshots = Append(@, snapshot)]

record_inventory_snapshot(tr, timestamp, inventory, mid_price) ==
    [tr EXCEPT !.inventory_snapshots = Append(@, <<timestamp, inventory, mid_price>>)]

\* mutant: every trade counts with the size of its distance from the mid
RECURSIVE spread_pnl_absolute(_, _)
spread_pnl_absolute(trades, n) ==
    IF n = 0 THEN Zero
    ELSE RAdd(spread_pnl_absolute(trades, n - 1),
              RMul(RAbs(trades[n].spread_vs_mid), trades[n].quantity))

\* get_spread_capture: sum(), left to right, over the first n trades
RECURSIVE spread_pnl(_, _)
spread_pnl(trades, n) ==
    IF n = 0 THEN Zero
    ELSE RAdd(spread_pnl(trades, n - 1),
              RMul(trades[n].spread_vs_mid, trades[n].quantity))

get_spread_capture(tr) == spread_pnl(tr.trades, Len(tr.trades))

\* mutant: the price change is applied to the inventory of the later snapshot
RECURSIVE inventory_pnl_current(_, _)
inventory_pnl_current(snapshots, n) ==
    IF n < 2 THEN Zero
    ELSE LET prev == snapshots[n - 1]
             curr == snapshots[n]
             price_change == RSub(curr[3], prev[3])
         IN  RAdd(inventory_pnl_current(snapshots, n - 1), RMul(curr[2], price_change))

\* get_inventory_pnl, lines 91-98: the loop up to snapshot n (1-based)
RECURSIVE inventory_pnl(_, _)
inventory_pnl(snapshots, n) ==
    IF n < 2 THEN Zero
    ELSE LET prev == snapshots[n - 1]
             curr == snapshots[n]
             price_change == RSub(curr[3], prev[3])
         IN  RAdd(inventory_pnl(snapshots, n - 1), RMul(prev[2], price_change))

get_inventory_pnl(tr) ==
    IF Len(tr.inventory_snapshots) < 2 THEN Zero
    ELSE inventory_pnl(tr.inventory_snapshots, Len(tr.inventory_snapshots))

\* mutant: every price move after a trade counts against it, whatever its side
RECURSIVE adverse_selection_any_side(_, _)
adverse_selection_any_side(trades, n) ==
    IF n = 0 THEN Zero
    ELSE LET trade == trades[n]
             next_trade == trades[n + 1]
             price_move == RSub(next_trade.mid_price, trade.mid_price)
             before == adverse_selection_any_side(trades, n - 1)
         IN  RAdd(before, RMul(RAbs(price_move), trade.quantity))

\* get_adverse_selection_cost, lines 116-130: the loop over the pairs
\* (trades[i], trades[i + 1]) up to the n-th pair
RECURSIVE adverse_selection(_, _)
adverse_selection(trades, n) ==
    IF n = 0 THEN Zero
    ELSE LET trade == trades[n]
             next_trade == trades[n + 1]
             price_move == RSub(next_trade.mid_price, trade.mid_price)
             before == adverse_selection(trades, n - 1)
         IN  IF trade.side = "buy" /\ RLt(price_move, Zero)
             THEN RAdd(before, RMul(RAbs(price_move), trade.quantity))
             ELSE IF trade.side = "sell" /\ RLt(Zero, price_move)
             THEN RAdd(before, RMul(RAbs(price_move), trade.quantity))
             ELSE before

get_adverse_selection_cost(tr) ==
    IF Len(tr.trades) < 2 THEN Zero
    ELSE RNeg(adverse_selection(tr.trades, Len(tr.trades) - 1))

\* mutant: the total leaves the adverse selection cost out
get_pnl_decomposition_no_cost(tr) ==
    LET spread_capture == get_spread_capture(tr)
        inventory == get_inventory_pnl(tr)
        cost == get_adverse_selection_cost(tr)
    IN  [spread_capture |-> spread_capture,
         inventory_pnl |-> inventory,
         adverse_selection |-> cost,
         total_pnl |-> RAdd(spread_capture, inventory)]

get_pnl_decomposition(tr) ==
    LET spread_capture == get_spread_capture(tr)
        inventory == get_inventory_pnl(tr)
        cost == get_adverse_selection_cost(tr)
    IN  [spread_capture |-> spread_capture,
         inventory_pnl |-> inventory,
         adverse_selection |-> cost,
         total_pnl |-> RAdd(RAdd(spread_capture, inventory), cost)]

get_trade_count(tr) ==
    LET num_buys == Cardinality({k \in 1..Len(tr.trades) : tr.trades[k].side = "buy"})
        num_sells == Cardinality({k \in 1..Len(tr.trades) : tr.trades[k].side = "sell"})
    IN  <<num_buys, num_sells>>

-----------------------------------------------------------------------------
(* MarketSimulator *)

MarketSimulator == [constructed |-> TRUE, current_time |-> Zero, history |-> <<>>]

simulate_price_move(ob, state, volatility, dt) ==
    LET current_mid == get_mid_price(ob)
        d == normal(state, Zero, RMul(volatility, RSqrt(dt)))
        price_change == RMul(d.value, current_mid)
        new_mid == RAdd(current_mid, price_change)
    IN  [order_book |-> update_mid_price(ob, new_mid), state |-> d.state,
         draws |-> <<"price_move">>]

\* mutant: the direction is drawn before the arrival is looked at
simulate_order_flow_eager(state, arrival_rate) ==
    LET a == random(state)
        b == random(a.state)
    IN  IF RLt(a.value, arrival_rate)
        THEN [side |-> IF RLt(b.value, Q(1, 2)) THEN "buy" ELSE "sell",
              state |-> b.state, draws |-> <<"arrival", "direction">>]
        ELSE [side |-> "none", state |-> b.state, draws |-> <<"arrival", "direction">>]

simulate_order_flow(state, arrival_rate) ==
    LET a == random(state)
    IN  IF RLt(a.value, arrival_rate)
        THEN LET b == random(a.state)
             IN  [side |-> IF RLt(b.value, Q(1, 2)) THEN "buy" ELSE "sell",
                  state |-> b.state, draws |-> <<"arrival", "direction">>]
        ELSE [side |-> "none", state |-> a.state, draws |-> <<"arrival">>]

\* A step in progress: the objects the simulator holds, the generator, the
\* arguments of the call and the locals of step.
StepContext(ob, mm, tr, sim, state, volatility, arrival_rate, dt) ==
    [order_book |-> ob, market_maker |-> mm, pnl_tracker |-> tr, simulator |-> sim,
     np_random |-> state, draws |-> <<>>,
     volatility |-> volatility, arrival_rate |-> arrival_rate, dt |-> dt,
     bid_price |-> None, ask_price |-> None,
     trade_occurred |-> FALSE, trade_side |-> "none",
     trade_price |-> None, trade_quantity |-> None]

\* mutant: an arriving order trades whatever the quoted size
step_fill_any_size(c) ==
    LET current_time == RAdd(c.simulator.current_time, c.dt)
        initial_mid == get_mid_price(c.order_book)
        q == get_quotes(c.market_maker, c.order_book)
        flow == simulate_order_flow(c.np_random, c.arrival_rate)
        c1 == [c EXCEPT !.simulator.current_time = current_time,
                        !.bid_price = q.bid_price, !.ask_price = q.ask_price,
                        !.np_random = flow.state, !.draws = @ \o flow.draws,
                        !.trade_occurred = FALSE, !.trade_side = "none",
                        !.trade_price = None, !.trade_quantity = None]
    IN  IF flow.side = "buy"
        THEN [c1 EXCEPT !.trade_side = "sell", !.trade_price = q.ask_price,
                        !.trade_quantity = q.ask_size,
                        !.market_maker = execute_ask_fill(@, q.ask_price, q.ask_size),
                        !.pnl_tracker = record_trade(@, current_time, "sell",
                                                     q.ask_price, q.ask_size, initial_mid),
                        !.trade_occurred = TRUE]
        ELSE IF flow.side = "sell"
        THEN [c1 EXCEPT !.trade_side = "buy", !.trade_price = q.bid_price,
                        !.trade_quantity = q.bid_size,
                        !.market_maker = execute_bid_fill(@, q.bid_price, q.bid_size),
                        !.pnl_tracker = record_trade(@, current_time, "buy",
                                                     q.bid_price, q.bid_size, initial_mid),
                        !.trade_occurred = TRUE]
        ELSE c1

\* mutant: an arriving order is also executed against the order book
step_fill_through_book(c) ==
    LET current_time == RAdd(c.simulator.current_time, c.dt)
        initial_mid == get_mid_price(c.order_book)
        q == get_quotes(c.market_maker, c.order_book)
        flow == simulate_order_flow(c.np_random, c.arrival_rate)
        c1 == [c EXCEPT !.simulator.current_time = current_time,
                        !.bid_price = q.bid_price, !.ask_price = q.ask_price,
                        !.np_random = flow.state, !.draws = @ \o flow.draws,
                        !.trade_occurred = FALSE, !.trade_side = "none",
                        !.trade_price = None, !.trade_quantity = None]
    IN  IF flow.side = "buy" /\ RLt(Zero, q.ask_size)
        THEN [c1 EXCEPT !.trade_side = "sell", !.trade_price = q.ask_price,
                        !.trade_quantity = q.ask_size,
                        !.order_book = execute_market_buy(@, q.ask_size).order_book,
                        !.market_maker = execute_ask_fill(@, q.ask_price, q.ask_size),
                        !.pnl_tracker = record_trade(@, current_time, "sell",
                                                     q.ask_price, q.ask_size, initial_mid),
                        !.trade_occurred = TRUE]
        ELSE IF flow.side = "sell" /\ RLt(Zero, q.bid_size)
        THEN [c1 EXCEPT !.trade_side = "buy", !.trade_price = q.bid_price,
                        !.trade_quantity = q.bid_size,
                        !.order_book = execute_market_sell(@, q.bid_size).order_book,
                        !.market_maker = execute_bid_fill(@, q.bid_price, q.bid_size),
                        !.pnl_tracker = record_trade(@, current_time, "buy",
                                                     q.bid_price, q.bid_size, initial_mid),
                        !.trade_occurred = TRUE]
        ELSE c1

\* mutant: a fill always trades the configured quote_size
step_fill_nominal_size(c) ==
    LET current_time == RAdd(c.simulator.current_time, c.dt)
        initial_mid == get_mid_price(c.order_book)
        q == get_quotes(c.market_maker, c.order_book)
        quote_size == c.market_maker.quote_size
        flow == simulate_order_flow(c.np_random, c.arrival_rate)
        c1 == [c EXCEPT !.simulator.current_time = current_time,
                        !.bid_price = q.bid_price, !.ask_price = q.ask_price,
                        !.np_random = flow.state, !.draws = @ \o flow.draws,
                        !.trade_occurred = FALSE, !.trade_side = "none",
                        !.trade_price = None, !.trade_quantity = None]
    IN  IF flow.side = "buy" /\ RLt(Zero, q.ask_size)
        THEN [c1 EXCEPT !.trade_side = "sell", !.trade_price = q.ask_price,
                        !.trade_quantity = quote_size,
                        !.market_maker = execute_ask_fill(@, q.ask_price, quote_size),
                        !.pnl_tracker = record_trade(@, current_time, "sell",
                                                     q.ask_price, quote_size, initial_mid),
                        !.trade_occurred = TRUE]
        ELSE IF flow.side = "sell" /\ RLt(Zero, q.bid_size)
        THEN [c1 EXCEPT !.trade_side = "buy", !.trade_price = q.bid_price,
                        !.trade_quantity = quote_size,
                        !.market_maker = execute_bid_fill(@, q.bid_price, quote_size),
                        !.pnl_tracker = record_trade(@, current_time, "buy",
                                                     q.bid_price, quote_size, initial_mid),
                        !.trade_occurred = TRUE]
        ELSE c1

\* step, lines 89-125: advance the clock, quote, draw the order flow, fill
step_fill(c) ==
    LET current_time == RAdd(c.simulator.current_time, c.dt)
        initial_mid == get_mid_price(c.order_book)
        q == get_quotes(c.market_maker, c.order_book)
        flow == simulate_order_flow(c.np_random, c.arrival_rate)
        c1 == [c EXCEPT !.simulator.current_time = current_time,
                        !.bid_price = q.bid_price, !.ask_price = q.ask_price,
                        !.np_random = flow.state, !.draws = @ \o flow.draws,
                        !.trade_occurred = FALSE, !.trade_side = "none",
                        !.trade_price = None, !.trade_quantity = None]
    IN  IF flow.side = "buy" /\ RLt(Zero, q.ask_size)
        THEN [c1 EXCEPT !.trade_side = "sell", !.trade_price = q.ask_price,
                        !.trade_quantity = q.ask_size,
                        !.market_maker = execute_ask_fill(@, q.ask_price, q.ask_size),
                        !.pnl_tracker = record_trade(@, current_time, "sell",
                                                     q.ask_price, q.ask_size, initial_mid),
                        !.trade_occurred = TRUE]
        ELSE IF flow.side = "sell" /\ RLt(Zero, q.bid_size)
        THEN [c1 EXCEPT !.trade_side = "buy", !.trade_price = q.bid_price,
                        !.trade_quantity = q.bid_size,
                        !.market_maker = execute_bid_fill(@, q.bid_price, q.bid_size),
                        !.pnl_tracker = record_trade(@, current_time, "buy",
                                                     q.bid_price, q.bid_size, initial_mid),
                        !.trade_occurred = TRUE]
        ELSE c1

\* step, lines 127-128: the price move
step_move(c) ==
    LET m == simulate_price_move(c.order_book, c.np_random, c.volatility, c.dt)
    IN  [c EXCEPT !.order_book = m.order_book, !.np_random = m.state,
                  !.draws = @ \o m.draws]

\* mutant: the history entry reports the cash PnL as total PnL
step_record_cash_total(c) ==
    LET current_mid == get_mid_price(c.order_book)
        current_inventory == get_inventory(c.market_maker)
        step_data == [time |-> c.simulator.current_time,
                      mid_price |-> current_mid,
                      bid_price |-> c.bid_price,
                      ask_price |-> c.ask_price,
                      inventory |-> current_inventory,
                      trade_occurred |-> c.trade_occurred,
                      trade_side |-> c.trade_side,
                      trade_price |-> c.trade_price,
                      trade_quantity |-> c.trade_quantity,
                      cash_pnl |-> get_cash_pnl(c.market_maker),
                      total_pnl |-> get_cash_pnl(c.market_maker)]
    IN  [c EXCEPT !.pnl_tracker = record_inventory_snapshot(@, c.simulator.current_time,
                                                            current_inventory, current_mid),
                  !.simulator.history = Append(@, step_data)]

\* step, lines 130-153: inventory snapshot and history entry
step_record(c) ==
    LET current_mid == get_mid_price(c.order_book)
        current_inventory == get_inventory(c.market_maker)
        step_data == [time |-> c.simulator.current_time,
                      mid_price |-> current_mid,
                      bid_price |-> c.bid_price,
                      ask_price |-> c.ask_price,
                      inventory |-> current_inventory,
                      trade_occurred |-> c.trade_occurred,
                      trade_side |-> c.trade_side,
                      trade_price |-> c.trade_price,
                      trade_quantity |-> c.trade_quantity,
                      cash_pnl |-> get_cash_pnl(c.market_maker),
                      total_pnl |-> get_total_pnl(c.market_maker, current_mid)]
    IN  [c EXCEPT !.pnl_tracker = record_inventory_snapshot(@, c.simulator.current_time,
                                                            current_inventory, current_mid),
                  !.simulator.history = Append(@, step_data)]

\* mutant: the snapshot and the history entry are taken before the price move
step_record_before_move(c) == step_move(step_record(step_fill(c)))

\* mutant: the price moves before the quotes are taken and the order is filled
step_move_first(c) == step_record(step_fill(step_move(c)))

step(c) == step_record(step_move(step_fill(c)))

\* run, lines 176-177: num_steps calls of step
\* mutant: the loop runs over range(num_steps + 1)
RECURSIVE run_inclusive(_, _)
run_inclusive(c, num_steps) ==
    IF num_steps = 0 THEN step(c) ELSE run_inclusive(step(c), num_steps - 1)

RECURSIVE run(_, _)
run(c, num_steps) == IF num_steps = 0 THEN c ELSE run(step(c), num_steps - 1)

\* the empty dict get_summary returns before the first step
EmptySummary == <<>>

\* mutant: the final figures are read from the first StepRecord
get_summary_first_state(sim, tr) ==
    IF Len(sim.history) = 0 THEN EmptySummary
    ELSE LET pnl_decomp == get_pnl_decomposition(tr)
             count == get_trade_count(tr)
             num_buys == count[1]
             num_sells == count[2]
             final_state == sim.history[1]
         IN  [total_steps |-> Len(sim.history),
              final_time |-> sim.current_time,
              initial_mid |-> sim.history[1].mid_price,
              final_mid |-> final_state.mid_price,
              price_change |-> RSub(final_state.mid_price, sim.history[1].mid_price),
              final_inventory |-> final_state.inventory,
              num_trades |-> num_buys + num_sells,
              num_buys |-> num_buys,
              num_sells |-> num_sells,
              cash_pnl |-> final_state.cash_pnl,
              total_pnl |-> final_state.total_pnl,
              spread_capture |-> pnl_decomp.spread_capture,
              inventory_pnl |-> pnl_decomp.inventory_pnl,
              adverse_selection |-> pnl_decomp.adverse_selection]

get_summary(sim, tr) ==
    IF Len(sim.history) = 0 THEN EmptySummary
    ELSE LET pnl_decomp == get_pnl_decomposition(tr)
             count == get_trade_count(tr)
             num_buys == count[1]
             num_sells == count[2]
             final_state == sim.history[Len(sim.history)]
         IN  [total_steps |-> Len(sim.history),
              final_time |-> sim.current_time,
              initial_mid |-> sim.history[1].mid_price,
              final_mid |-> final_state.mid_price,
              price_change |-> RSub(final_state.mid_price, sim.history[1].mid_price),
              final_inventory |-> final_state.inventory,
              num_trades |-> num_buys + num_sells,
              num_buys |-> num_buys,
              num_sells |-> num_sells,
              cash_pnl |-> final_state.cash_pnl,
              total_pnl |-> final_state.total_pnl,
              spread_capture |-> pnl_decomp.spread_capture,
              inventory_pnl |-> pnl_decomp.inventory_pnl,
              adverse_selection |-> pnl_decomp.adverse_selection]

-----------------------------------------------------------------------------
(* Configurations and inputs *)

NoRiskManager == None

\* risk policies the simulated makers are built with
RiskConfigs ==
    {NoRiskManager,
     RiskManager(FALSE, None, TRUE, Q(1, 5)),
     RiskManager(TRUE, R(50), FALSE, Q(1, 5)),
     RiskManager(TRUE, R(-50), TRUE, Q(3, 10)),
     RiskManager(TRUE, R(5000), TRUE, One)}

\* policies with kill switch and size throttle both disabled
DisabledRiskManagers ==
    {RiskManager(FALSE, l, FALSE, m) : l \in {None, R(50)}, m \in {Q(1, 5), One}}

\* every policy a direct apply call is tried with
AllRiskManagers ==
    {RiskManager(k, l, t, m) : k \in BOOLEAN, l \in {None, R(50), R(-50)},
                               t \in BOOLEAN, m \in {Q(1, 5), One}}

MakerConfigs ==
    {MarketMaker(Q(1, 2), R(8), mi, sk, rm) :
        mi \in {R(12), R(16)}, sk \in {Zero, Q(1, 8)}, rm \in RiskConfigs}

DefaultOrderBook == OrderBook(R(100), Q(1, 10), R(100), 5)

DefaultMarketMaker == MarketMaker(Q(1, 20), R(10), R(100), Q(1, 100), NoRiskManager)

\* (volatility, arrival_rate, dt) a step is called with
StepParams ==
    {[volatility |-> Q(1, 2), arrival_rate |-> Q(1, 2), dt |-> One],
     [volatility |-> Q(1, 2), arrival_rate |-> One, dt |-> One],
     [volatility |-> Zero, arrival_rate |-> One, dt |-> Q(1, 4)]}

\* the arguments both simulators of SpecTwo are run with
RunParams == [volatility |-> Q(1, 2), arrival_rate |-> Q(1, 2), dt |-> One]

FillPrices == {Q(1999, 20), Q(2001, 20), R(101)}
FillQuantities == {R(5), R(10)}

Mids == {R(0), R(50), R(100), Q(2001, 20), R(250)}

\* inventories a direct apply call is tried with
RiskInventories == {R(-20), R(-10), Zero, R(5), R(20), R(30)}

\* mid prices a direct get_quotes call is tried at
QuoteMids == {R(100), Q(201, 2)}

\* order books inside the ranges of the data model: half-spread > 0,
\* depth_per_level >= 0, num_levels >= 0
BookConfigs ==
    {OrderBook(R(100), spread, depth_per_level, num_levels) :
        spread \in {Q(1, 10), Q(1, 4)}, depth_per_level \in {Zero, R(100)},
        num_levels \in {0, 5}}

\* arguments of the direct order-book calls
BookQuantities == {Zero, R(50), R(100), R(200)}
BookMids == {R(101), R(50)}
BookLevels == {0, 4, 5, 10}

BookCall(method, argument, before, outcome) ==
    [method |-> method, argument |-> argument, before |-> before,
     outcome |-> outcome, calls |-> book_call.calls + 1]

\* arguments of the direct record_trade / record_inventory_snapshot calls:
\* (price, quantity, mid_price) of a trade, and the snapshot fields
TradeArgs == {<<R(100), R(10), R(100)>>, <<Q(1981, 20), R(5), R(99)>>}
SnapshotTimes == {R(1), R(2)}
SnapshotInventories == {R(10), R(-5)}
SnapshotMids == {R(100), R(101)}

\* depth_per_level of the books a driven simulator is built on: none, less
\* than the quoted size, more than it
RunDepths == {Zero, R(4), R(100)}

\* (volatility, arrival_rate, dt) the driven simulator is stepped and run with
RunArgs ==
    {[volatility |-> Q(1, 2), arrival_rate |-> Q(1, 2), dt |-> One],
     [volatility |-> Zero, arrival_rate |-> One, dt |-> Q(1, 4)]}

\* initial_mid the driven simulator's order book is constructed with
RunInitialMid == R(100)

RunMarketMaker == MarketMaker(Q(1, 2), R(8), R(16), Q(1, 8), NoRiskManager)

\* (side, price, quantity, mid_price) of the trades and (inventory, mid_price)
\* of the snapshots recorded from outside the step loop
DirectTrades == {<<"sell", R(101), R(3), R(100)>>}
DirectSnapshots == {<<R(3), R(99)>>}

\* (price, quantity) of the fills made from outside the step loop
DirectBidFills == {<<Q(199, 2), R(5)>>}
DirectAskFills == {<<R(101), R(5)>>}

NoCall == [sim |-> 0, volatility |-> None, arrival_rate |-> None, dt |-> None,
           draws |-> <<>>]

NoStream == [owner |-> 0, seed |-> [i \in SimIds |-> None], solo |-> [i \in SimIds |-> 0]]

RiskCall(rm, bid_price, bid_size, ask_price, ask_size, inventory, max_inventory, cash_pnl) ==
    [rm |-> rm, bid_price |-> bid_price, bid_size |-> bid_size,
     ask_price |-> ask_price, ask_size |-> ask_size, inventory |-> inventory,
     max_inventory |-> max_inventory, cash_pnl |-> cash_pnl, result |-> None]

DefaultRiskCall ==
    RiskCall(RiskManager(FALSE, None, TRUE, Q(1, 5)), Q(1999, 20), R(10), Q(2001, 20), R(10),
             Zero, R(100), Zero)

NotConstructed == [MarketSimulator EXCEPT !.constructed = FALSE]

NoApiCall == [method |-> "none", argument |-> None, returned |-> None]

ApiCall(method, argument, returned) ==
    [method |-> method, argument |-> argument, returned |-> returned]

NoBookCall == [method |-> "none", argument |-> None, before |-> None,
               outcome |-> None, calls |-> 0]

-----------------------------------------------------------------------------
(* Spec: one simulator, stepped with arbitrary arguments *)

Init ==
    /\ np_random \in RngStates
    /\ order_book = [i \in SimIds |-> DefaultOrderBook]
    /\ \E mm \in MakerConfigs : market_maker = [i \in SimIds |-> mm]
    /\ pnl_tracker = [i \in SimIds |-> PnLTracker]
    /\ simulator = [i \in SimIds |-> IF i = 1 THEN MarketSimulator ELSE NotConstructed]
    /\ last_call = NoCall
    /\ stream = NoStream
    /\ risk_call = DefaultRiskCall
    /\ quote_call = None
    /\ fill_call = None
    /\ book_call = NoBookCall
    /\ api_call = NoApiCall

\* MarketSimulator.step on instance i
StepOf(i, p, bound) ==
    /\ simulator[i].constructed
    /\ Len(simulator[i].history) < bound
    /\ \E c \in {step(StepContext(order_book[i], market_maker[i], pnl_tracker[i],
                                   simulator[i], np_random,
                                   p.volatility, p.arrival_rate, p.dt))} :
           /\ order_book' = [order_book EXCEPT ![i] = c.order_book]
           /\ market_maker' = [market_maker EXCEPT ![i] = c.market_maker]
           /\ pnl_tracker' = [pnl_tracker EXCEPT ![i] = c.pnl_tracker]
           /\ simulator' = [simulator EXCEPT ![i] = c.simulator]
           /\ np_random' = c.np_random
           /\ last_call' = [sim |-> i, volatility |-> p.volatility,
                            arrival_rate |-> p.arrival_rate, dt |-> p.dt,
                            draws |-> c.draws]
    /\ stream' = IF stream.owner = i
                 THEN [stream EXCEPT !.solo[i] = @ + 1]
                 ELSE [stream EXCEPT !.owner = 0]
    /\ api_call' = NoApiCall
    /\ UNCHANGED <<risk_call, quote_call, fill_call, book_call>>

Step == \E p \in StepParams : StepOf(1, p, MaxSteps)

Next == Step

Spec == Init /\ [][Next]_vars

-----------------------------------------------------------------------------
(* SpecTwo: two simulators of one configuration, constructed and run with *)
(* the same arguments, sharing np.random                                   *)

InitTwo ==
    /\ np_random \in RngStates
    /\ order_book = [i \in SimIds |-> DefaultOrderBook]
    /\ \E rm \in {NoRiskManager, RiskManager(FALSE, None, TRUE, Q(1, 5))} :
          market_maker = [i \in SimIds |-> MarketMaker(Q(1, 2), R(8), R(16), Q(1, 8), rm)]
    /\ pnl_tracker = [i \in SimIds |-> PnLTracker]
    /\ simulator = [i \in SimIds |-> NotConstructed]
    /\ last_call = NoCall
    /\ stream = NoStream
    /\ risk_call = DefaultRiskCall
    /\ quote_call = None
    /\ fill_call = None
    /\ book_call = NoBookCall
    /\ api_call = NoApiCall

\* mutant: the constructor does not seed the generator
Construct_unseeded(i, random_seed) ==
    /\ ~simulator[i].constructed
    /\ simulator' = [simulator EXCEPT ![i] = MarketSimulator]
    /\ np_random' = np_random
    /\ stream' = IF random_seed # None
                 THEN [stream EXCEPT !.owner = i, !.seed[i] = random_seed]
                 ELSE stream
    /\ UNCHANGED <<order_book, market_maker, pnl_tracker, last_call, risk_call, quote_call,
                   fill_call, book_call, api_call>>

\* MarketSimulator.__init__ of instance i
Construct(i, random_seed) ==
    /\ ~simulator[i].constructed
    /\ simulator' = [simulator EXCEPT ![i] = MarketSimulator]
    /\ np_random' = IF random_seed # None THEN seed(random_seed[1]) ELSE np_random
    /\ stream' = IF random_seed # None
                 THEN [stream EXCEPT !.owner = i, !.seed[i] = random_seed]
                 ELSE stream
    /\ UNCHANGED <<order_book, market_maker, pnl_tracker, last_call, risk_call, quote_call,
                   fill_call, book_call, api_call>>

ConstructTwo == \E i \in SimIds : \E s \in {None} \cup {<<x>> : x \in Seeds} : Construct(i, s)

StepTwo == \E i \in SimIds : StepOf(i, RunParams, MaxTwoSteps)

NextTwo == ConstructTwo \/ StepTwo

SpecTwo == InitTwo /\ [][NextTwo]_vars

-----------------------------------------------------------------------------
(* SpecPair: two simulators of one configuration, the first maker without  *)
(* a risk policy, the second attached to a RiskManager with both controls  *)
(* disabled                                                                *)

InitPair ==
    /\ np_random \in RngStates
    /\ order_book = [i \in SimIds |-> DefaultOrderBook]
    /\ \E max_inventory \in {R(12), R(16)}, rm \in DisabledRiskManagers :
          market_maker = [i \in SimIds |->
              MarketMaker(Q(1, 2), R(8), max_inventory, Q(1, 8),
                          IF i = 1 THEN NoRiskManager ELSE rm)]
    /\ pnl_tracker = [i \in SimIds |-> PnLTracker]
    /\ simulator = [i \in SimIds |-> NotConstructed]
    /\ last_call = NoCall
    /\ stream = NoStream
    /\ risk_call = DefaultRiskCall
    /\ quote_call = None
    /\ fill_call = None
    /\ book_call = NoBookCall
    /\ api_call = NoApiCall

SpecPair == InitPair /\ [][NextTwo]_vars

-----------------------------------------------------------------------------
(* SpecMaker: direct fills on a new MarketMaker *)

InitMaker ==
    /\ np_random = 0
    /\ order_book = [i \in SimIds |-> DefaultOrderBook]
    /\ market_maker = [i \in SimIds |-> DefaultMarketMaker]
    /\ pnl_tracker = [i \in SimIds |-> PnLTracker]
    /\ simulator = [i \in SimIds |-> NotConstructed]
    /\ last_call = NoCall
    /\ stream = NoStream
    /\ risk_call = DefaultRiskCall
    /\ quote_call = None
    /\ fill_call = None
    /\ book_call = NoBookCall
    /\ api_call = NoApiCall

VolumeLeft(mm) == RLt(RAdd(mm.total_bought, mm.total_sold), R(MaxVolume))

ExecuteBidFill ==
    /\ VolumeLeft(market_maker[1])
    /\ \E price \in FillPrices, quantity \in FillQuantities :
          /\ market_maker' = [market_maker EXCEPT ![1] = execute_bid_fill(@, price, quantity)]
          /\ fill_call' = [method |-> "execute_bid_fill", price |-> price,
                           quantity |-> quantity]
    /\ UNCHANGED <<np_random, order_book, pnl_tracker, simulator, last_call, stream,
                   risk_call, quote_call, book_call, api_call>>

ExecuteAskFill ==
    /\ VolumeLeft(market_maker[1])
    /\ \E price \in FillPrices, quantity \in FillQuantities :
          /\ market_maker' = [market_maker EXCEPT ![1] = execute_ask_fill(@, price, quantity)]
          /\ fill_call' = [method |-> "execute_ask_fill", price |-> price,
                           quantity |-> quantity]
    /\ UNCHANGED <<np_random, order_book, pnl_tracker, simulator, last_call, stream,
                   risk_call, quote_call, book_call, api_call>>

GetAverageBuyPrice ==
    /\ api_call' = ApiCall("get_average_buy_price", None,
                            get_average_buy_price(market_maker[1]))
    /\ UNCHANGED <<np_random, order_book, market_maker, pnl_tracker, simulator,
                   last_call, stream, risk_call, quote_call, fill_call, book_call>>

GetAverageSellPrice ==
    /\ api_call' = ApiCall("get_average_sell_price", None,
                            get_average_sell_price(market_maker[1]))
    /\ UNCHANGED <<np_random, order_book, market_maker, pnl_tracker, simulator,
                   last_call, stream, risk_call, quote_call, fill_call, book_call>>

NextMaker ==
    \/ ExecuteBidFill
    \/ ExecuteAskFill
    \/ GetAverageBuyPrice
    \/ GetAverageSellPrice

SpecMaker == InitMaker /\ [][NextMaker]_vars

-----------------------------------------------------------------------------
(* SpecRisk: direct calls of RiskManager.apply on drawn arguments, and of  *)
(* MarketMaker.get_quotes on a maker that has traded                       *)

TradedMaker(mm, bought, sold) ==
    LET a == IF bought = Zero THEN mm ELSE execute_bid_fill(mm, Q(1999, 20), bought)
    IN  IF sold = Zero THEN a ELSE execute_ask_fill(a, Q(2001, 20), sold)

InitRisk ==
    /\ np_random = 0
    /\ pnl_tracker = [i \in SimIds |-> PnLTracker]
    /\ simulator = [i \in SimIds |-> NotConstructed]
    /\ last_call = NoCall
    /\ stream = NoStream
    /\ quote_call = None
    /\ fill_call = None
    /\ book_call = NoBookCall
    /\ api_call = NoApiCall
    /\ \/ /\ order_book = [i \in SimIds |-> DefaultOrderBook]
          /\ market_maker = [i \in SimIds |-> DefaultMarketMaker]
          /\ \E rm \in AllRiskManagers,
                bid_size \in {Zero, R(10)}, ask_size \in {Zero, R(10)},
                inventory \in RiskInventories,
                max_inventory \in {R(-5), Zero, R(15), R(20)},
                cash_pnl \in {R(-100), R(-50), R(-49), Zero, R(50)} :
                risk_call = RiskCall(rm, Q(1999, 20), bid_size, Q(2001, 20), ask_size,
                                     inventory, max_inventory, cash_pnl)
       \/ /\ risk_call = DefaultRiskCall
          /\ \E mid \in QuoteMids :
                order_book = [i \in SimIds |-> update_mid_price(DefaultOrderBook, mid)]
          /\ \E rm \in AllRiskManagers \cup {NoRiskManager},
                mi \in {R(15), R(20)}, sk \in {Zero, Q(1, 100)},
                bought \in {Zero, R(10), R(20)}, sold \in {Zero, R(10), R(20)} :
                market_maker = [i \in SimIds |->
                    TradedMaker(MarketMaker(Q(1, 20), R(10), mi, sk, rm), bought, sold)]

Apply ==
    /\ risk_call.result = None
    /\ risk_call' = [risk_call EXCEPT !.result =
          apply(risk_call.rm, risk_call.bid_price, risk_call.bid_size,
                risk_call.ask_price, risk_call.ask_size, risk_call.inventory,
                risk_call.max_inventory, risk_call.cash_pnl)]
    /\ UNCHANGED <<np_random, order_book, market_maker, pnl_tracker, simulator,
                   last_call, stream, quote_call, fill_call, book_call, api_call>>

GetQuotes ==
    /\ quote_call = None
    /\ quote_call' = get_quotes(market_maker[1], order_book[1])
    /\ UNCHANGED <<np_random, order_book, market_maker, pnl_tracker, simulator,
                   last_call, stream, risk_call, fill_call, book_call, api_call>>

NextRisk == Apply \/ GetQuotes

SpecRisk == InitRisk /\ [][NextRisk]_vars

-----------------------------------------------------------------------------
(* SpecBook: direct calls on the order book of a simulator, between its    *)
(* steps                                                                   *)

InitBook ==
    /\ \E s \in Seeds : np_random = seed(s)
    /\ \E ob \in BookConfigs : order_book = [i \in SimIds |-> ob]
    /\ market_maker = [i \in SimIds |->
          MarketMaker(Q(1, 2), R(8), R(16), Q(1, 8), NoRiskManager)]
    /\ pnl_tracker = [i \in SimIds |-> PnLTracker]
    /\ simulator = [i \in SimIds |-> IF i = 1 THEN MarketSimulator ELSE NotConstructed]
    /\ last_call = NoCall
    /\ stream = NoStream
    /\ risk_call = DefaultRiskCall
    /\ quote_call = None
    /\ fill_call = None
    /\ book_call = NoBookCall
    /\ api_call = NoApiCall

UpdateMidPrice ==
    /\ book_call.calls < MaxBookCalls
    /\ \E new_mid \in BookMids :
          /\ order_book' = [order_book EXCEPT ![1] = update_mid_price(@, new_mid)]
          /\ book_call' = BookCall("update_mid_price", new_mid, order_book[1],
                                    Returned(None))
    /\ UNCHANGED <<np_random, market_maker, pnl_tracker, simulator, last_call, stream,
                   risk_call, quote_call, fill_call, api_call>>

ExecuteMarketBuy ==
    /\ book_call.calls < MaxBookCalls
    /\ \E quantity \in BookQuantities :
          \E r \in {execute_market_buy(order_book[1], quantity)} :
              /\ order_book' = [order_book EXCEPT ![1] = r.order_book]
              /\ book_call' = BookCall("execute_market_buy", quantity, order_book[1],
                                        r.outcome)
    /\ UNCHANGED <<np_random, market_maker, pnl_tracker, simulator, last_call, stream,
                   risk_call, quote_call, fill_call, api_call>>

ExecuteMarketSell ==
    /\ book_call.calls < MaxBookCalls
    /\ \E quantity \in BookQuantities :
          \E r \in {execute_market_sell(order_book[1], quantity)} :
              /\ order_book' = [order_book EXCEPT ![1] = r.order_book]
              /\ book_call' = BookCall("execute_market_sell", quantity, order_book[1],
                                        r.outcome)
    /\ UNCHANGED <<np_random, market_maker, pnl_tracker, simulator, last_call, stream,
                   risk_call, quote_call, fill_call, api_call>>

GetDepthAtLevel ==
    /\ book_call.calls < MaxBookCalls
    /\ \E level \in BookLevels :
          book_call' = BookCall("get_depth_at_level", level, order_book[1],
                                Returned(get_depth_at_level(order_book[1], level)))
    /\ UNCHANGED <<np_random, order_book, market_maker, pnl_tracker, simulator,
                   last_call, stream, risk_call, quote_call, fill_call, api_call>>

StepBook == StepOf(1, RunParams, MaxBookSteps)

NextBook ==
    \/ UpdateMidPrice
    \/ ExecuteMarketBuy
    \/ ExecuteMarketSell
    \/ GetDepthAtLevel
    \/ StepBook

SpecBook == InitBook /\ [][NextBook]_vars

-----------------------------------------------------------------------------
(* SpecLedger: direct calls on a new PnLTracker                            *)

InitLedger ==
    /\ np_random = 0
    /\ order_book = [i \in SimIds |-> DefaultOrderBook]
    /\ market_maker = [i \in SimIds |-> DefaultMarketMaker]
    /\ pnl_tracker = [i \in SimIds |-> PnLTracker]
    /\ simulator = [i \in SimIds |-> NotConstructed]
    /\ last_call = NoCall
    /\ stream = NoStream
    /\ risk_call = DefaultRiskCall
    /\ quote_call = None
    /\ fill_call = None
    /\ book_call = NoBookCall
    /\ api_call = NoApiCall

RecordTrade ==
    /\ Len(pnl_tracker[1].trades) < MaxTrades
    /\ \E side \in {"buy", "sell"}, a \in TradeArgs :
          pnl_tracker' = [pnl_tracker EXCEPT ![1] =
              record_trade(@, R(Len(@.trades) + 1), side, a[1], a[2], a[3])]
    /\ UNCHANGED <<np_random, order_book, market_maker, simulator, last_call, stream,
                   risk_call, quote_call, fill_call, book_call, api_call>>

RecordInventorySnapshot ==
    /\ Len(pnl_tracker[1].inventory_snapshots) < MaxSnapshots
    /\ \E timestamp \in SnapshotTimes, inventory \in SnapshotInventories,
          mid_price \in SnapshotMids :
          pnl_tracker' = [pnl_tracker EXCEPT ![1] =
              record_inventory_snapshot(@, timestamp, inventory, mid_price)]
    /\ UNCHANGED <<np_random, order_book, market_maker, simulator, last_call, stream,
                   risk_call, quote_call, fill_call, book_call, api_call>>

GetPnlDecomposition ==
    /\ api_call' = ApiCall("get_pnl_decomposition", None,
                            get_pnl_decomposition(pnl_tracker[1]))
    /\ UNCHANGED <<np_random, order_book, market_maker, pnl_tracker, simulator,
                   last_call, stream, risk_call, quote_call, fill_call, book_call>>

GetTradeCount ==
    /\ api_call' = ApiCall("get_trade_count", None, get_trade_count(pnl_tracker[1]))
    /\ UNCHANGED <<np_random, order_book, market_maker, pnl_tracker, simulator,
                   last_call, stream, risk_call, quote_call, fill_call, book_call>>

NextLedger ==
    \/ RecordTrade
    \/ RecordInventorySnapshot
    \/ GetPnlDecomposition
    \/ GetTradeCount

SpecLedger == InitLedger /\ [][NextLedger]_vars

-----------------------------------------------------------------------------
(* SpecRun: one simulator driven by step and run, with direct calls on its *)
(* tracker and the read operations in between                              *)

InitRun ==
    /\ np_random \in {seed(s) : s \in Seeds}
    /\ \E depth_per_level \in RunDepths :
          order_book = [i \in SimIds |->
                           OrderBook(RunInitialMid, Q(1, 10), depth_per_level, 5)]
    /\ market_maker = [i \in SimIds |-> RunMarketMaker]
    /\ pnl_tracker = [i \in SimIds |-> PnLTracker]
    /\ simulator = [i \in SimIds |-> IF i = 1 THEN MarketSimulator ELSE NotConstructed]
    /\ last_call = NoCall
    /\ stream = NoStream
    /\ risk_call = DefaultRiskCall
    /\ quote_call = None
    /\ fill_call = None
    /\ book_call = NoBookCall
    /\ api_call = NoApiCall

\* MarketSimulator.run(num_steps, volatility, arrival_rate, dt) on instance 1
Run ==
    \E num_steps \in 0..(MaxRunSteps - Len(simulator[1].history)), p \in RunArgs :
        \E c \in {run(StepContext(order_book[1], market_maker[1], pnl_tracker[1],
                                   simulator[1], np_random,
                                   p.volatility, p.arrival_rate, p.dt), num_steps)} :
           /\ order_book' = [order_book EXCEPT ![1] = c.order_book]
           /\ market_maker' = [market_maker EXCEPT ![1] = c.market_maker]
           /\ pnl_tracker' = [pnl_tracker EXCEPT ![1] = c.pnl_tracker]
           /\ simulator' = [simulator EXCEPT ![1] = c.simulator]
           /\ np_random' = c.np_random
           /\ api_call' = ApiCall("run", [num_steps |-> num_steps, volatility |-> p.volatility,
                                          arrival_rate |-> p.arrival_rate, dt |-> p.dt],
                                  c.simulator.history)
           /\ last_call' = IF num_steps = 0 THEN last_call
                            ELSE [sim |-> 1, volatility |-> p.volatility,
                                  arrival_rate |-> p.arrival_rate, dt |-> p.dt,
                                  draws |-> c.draws]
           /\ UNCHANGED <<stream, risk_call, quote_call, fill_call, book_call>>

\* pnl_tracker.record_trade called from outside the step loop
RecordTradeDirect ==
    /\ Len(pnl_tracker[1].trades) < MaxTrades
    /\ \E a \in DirectTrades :
          pnl_tracker' = [pnl_tracker EXCEPT ![1] =
              record_trade(@, simulator[1].current_time, a[1], a[2], a[3], a[4])]
    /\ api_call' = NoApiCall
    /\ UNCHANGED <<np_random, order_book, market_maker, simulator, last_call, stream,
                   risk_call, quote_call, fill_call, book_call>>

\* pnl_tracker.record_inventory_snapshot called from outside the step loop
RecordInventorySnapshotDirect ==
    /\ Len(pnl_tracker[1].inventory_snapshots) < MaxSnapshots
    /\ \E a \in DirectSnapshots :
          pnl_tracker' = [pnl_tracker EXCEPT ![1] =
              record_inventory_snapshot(@, simulator[1].current_time, a[1], a[2])]
    /\ api_call' = NoApiCall
    /\ UNCHANGED <<np_random, order_book, market_maker, simulator, last_call, stream,
                   risk_call, quote_call, fill_call, book_call>>

GetSummary ==
    /\ api_call' = ApiCall("get_summary", None, get_summary(simulator[1], pnl_tracker[1]))
    /\ UNCHANGED <<np_random, order_book, market_maker, pnl_tracker, simulator,
                   last_call, stream, risk_call, quote_call, fill_call, book_call>>

StepRun == \E p \in RunArgs : StepOf(1, p, MaxRunSteps)

NextRun ==
    \/ StepRun
    \/ Run
    \/ RecordTradeDirect
    \/ RecordInventorySnapshotDirect
    \/ GetSummary
    \/ GetPnlDecomposition
    \/ GetTradeCount

SpecRun == InitRun /\ [][NextRun]_vars

-----------------------------------------------------------------------------
(* SpecSummary: one simulator driven by step and run alone, and its        *)
(* get_summary read                                                        *)

NextSummary ==
    \/ StepRun
    \/ Run
    \/ GetSummary

SpecSummary == InitRun /\ [][NextSummary]_vars

-----------------------------------------------------------------------------
(* SpecPosition: a new maker filled by the steps of its simulator and by   *)
(* direct execute_bid_fill / execute_ask_fill calls                        *)

\* execute_bid_fill called from outside the step loop
ExecuteBidFillDirect ==
    /\ VolumeLeft(market_maker[1])
    /\ \E f \in DirectBidFills :
          /\ market_maker' = [market_maker EXCEPT ![1] = execute_bid_fill(@, f[1], f[2])]
          /\ fill_call' = [method |-> "execute_bid_fill", price |-> f[1],
                           quantity |-> f[2]]
    /\ UNCHANGED <<np_random, order_book, pnl_tracker, simulator, last_call, stream,
                   risk_call, quote_call, book_call, api_call>>

\* execute_ask_fill called from outside the step loop
ExecuteAskFillDirect ==
    /\ VolumeLeft(market_maker[1])
    /\ \E f \in DirectAskFills :
          /\ market_maker' = [market_maker EXCEPT ![1] = execute_ask_fill(@, f[1], f[2])]
          /\ fill_call' = [method |-> "execute_ask_fill", price |-> f[1],
                           quantity |-> f[2]]
    /\ UNCHANGED <<np_random, order_book, pnl_tracker, simulator, last_call, stream,
                   risk_call, quote_call, book_call, api_call>>

NextPosition ==
    \/ StepRun
    \/ ExecuteBidFillDirect
    \/ ExecuteAskFillDirect

SpecPosition == InitRun /\ [][NextPosition]_vars

-----------------------------------------------------------------------------
(* Properties *)

Last(seq) == seq[Len(seq)]

IMin(a, b) == IF a <= b THEN a ELSE b

\* instance i completed a step in this transition
Stepped(i) == Len(simulator'[i].history) = Len(simulator[i].history) + 1

\* the arrival draw of a step starting in the current state signals an order
Arrives(arrival_rate) == RLt(random(np_random).value, arrival_rate)

\* the side of the order a step starting in the current state receives
ArrivingSide(arrival_rate) ==
    IF ~Arrives(arrival_rate) THEN "none"
    ELSE IF RLt(random(random(np_random).state).value, Q(1, 2)) THEN "buy" ELSE "sell"

RECURSIVE AdvanceN(_, _)
AdvanceN(state, n) == IF n = 0 THEN state ELSE AdvanceN(rng_advance(state), n - 1)

\* C1: in a run driven by step from inventory 0, |inventory| never exceeds
\* max_inventory, neither in the maker nor in any recorded step
C1_InventoryWithinLimit ==
    \A i \in SimIds :
        /\ RLe(RAbs(market_maker[i].inventory), market_maker[i].max_inventory)
        /\ \A k \in 1..Len(simulator[i].history) :
              RLe(RAbs(simulator[i].history[k].inventory), market_maker[i].max_inventory)

\* C1 witness: fills took the maker to its limit, where get_quotes has zeroed
\* the bid
C1_AtLimit ==
    /\ market_maker[1].inventory = market_maker[1].max_inventory
    /\ Len(pnl_tracker[1].trades) >= 2
    /\ get_quotes(market_maker[1], order_book[1]).bid_size = Zero
    /\ get_quotes(market_maker[1], order_book[1]).ask_size # Zero

\* C2: with inventory 0 after direct fills, total_pnl(m) = cash_pnl() for
\* every mid price m
C2_FlatReconciles ==
    market_maker[1].inventory = Zero =>
        \A m \in Mids : get_total_pnl(market_maker[1], m) = get_cash_pnl(market_maker[1])

\* C2 witness: the round trip buy 10 @ 99.95, sell 10 @ 100.05: flat, cash_pnl 1.00
C2_RoundTrip ==
    /\ market_maker[1].inventory = Zero
    /\ market_maker[1].total_bought = R(10)
    /\ market_maker[1].total_sold = R(10)
    /\ get_cash_pnl(market_maker[1]) = One

\* instances i and j agree on (mid_price, inventory) over their first n steps
SamePath(i, j, n) ==
    \A k \in 1..n :
        /\ simulator[i].history[k].mid_price = simulator[j].history[k].mid_price
        /\ simulator[i].history[k].inventory = simulator[j].history[k].inventory

\* C3: two simulators of one configuration constructed with the same seed,
\* each run without any other use of np.random between its construction and
\* its steps, produce the same (mid_price, inventory) sequence
C3_Determinism ==
    \A i, j \in SimIds :
        (stream.seed[i] # None /\ stream.seed[i] = stream.seed[j]) =>
            SamePath(i, j, IMin(stream.solo[i], stream.solo[j]))

\* C3 witness: the second simulator was constructed with the first one's seed
\* after the first finished; both ran the full number of steps, with a trade
C3_BothRan ==
    /\ stream.seed[1] # None
    /\ stream.seed[1] = stream.seed[2]
    /\ stream.solo[1] = MaxTwoSteps
    /\ stream.solo[2] = MaxTwoSteps
    /\ Len(pnl_tracker[2].trades) > 0
    /\ simulator[2].history[1].mid_price # simulator[2].history[2].mid_price

\* the history of a simulator of instance i's configuration constructed with
\* random_seed and run alone for n steps
AloneHistory(i, random_seed, n) ==
    run(StepContext(DefaultOrderBook,
                    MarketMaker(market_maker[i].quote_spread, market_maker[i].quote_size,
                                market_maker[i].max_inventory,
                                market_maker[i].inventory_skew_factor,
                                market_maker[i].risk_manager),
                    PnLTracker, MarketSimulator, seed(random_seed),
                    RunParams.volatility, RunParams.arrival_rate, RunParams.dt),
        n).simulator.history

\* C4: a seeded simulator's history is the one it produces when run alone,
\* whatever the other instance does in between
C4_Independent ==
    \A i \in SimIds :
        stream.seed[i] # None =>
            simulator[i].history =
                AloneHistory(i, stream.seed[i][1], Len(simulator[i].history))

\* C5: a step draws arrival, then direction iff the arrival draw signalled an
\* order, then the price move, and nothing else
C5_DrawOrder ==
    [][\A i \in SimIds : Stepped(i) =>
          LET expected == IF Arrives(last_call'.arrival_rate)
                          THEN <<"arrival", "direction", "price_move">>
                          ELSE <<"arrival", "price_move">>
          IN  /\ last_call'.draws = expected
              /\ np_random' = AdvanceN(np_random, Len(expected))]_vars

\* C5 witness: an order arrived on a side quoted with size zero: three draws
\* were made and no trade was recorded
C5_DirectionDrawnWithoutTrade ==
    /\ last_call.sim = 1
    /\ last_call.draws = <<"arrival", "direction", "price_move">>
    /\ ~Last(simulator[1].history).trade_occurred

\* C6: a trade of a step is priced at the quote computed from the mid and the
\* inventory the step started with, and carries that pre-move mid
C6_TradeBeforeMove ==
    [][\A i \in SimIds : (Stepped(i) /\ Last(simulator'[i].history).trade_occurred) =>
          LET mid == order_book[i].mid_price
              mm == market_maker[i]
              skew == RMul(mm.inventory, mm.inventory_skew_factor)
              t == Last(pnl_tracker'[i].trades)
              quote == IF t.side = "sell" THEN RAdd(RAdd(mid, mm.quote_spread), skew)
                       ELSE RSub(RSub(mid, mm.quote_spread), skew)
          IN  /\ Len(pnl_tracker'[i].trades) = Len(pnl_tracker[i].trades) + 1
              /\ t.price = quote
              /\ t.mid_price = mid
              /\ Last(simulator'[i].history).trade_price = quote]_vars

\* C6 witness: a trade made at a skewed quote in a step whose price move
\* changed the mid
C6_TradeThenMove ==
    /\ Len(pnl_tracker[1].trades) >= 2
    /\ Last(simulator[1].history).trade_occurred
    /\ Last(pnl_tracker[1].trades).mid_price # Last(simulator[1].history).mid_price
    /\ market_maker[1].inventory_skew_factor # Zero

\* C7: an order arriving on a side quoted with size zero trades nothing: the
\* maker and the trade list are unchanged and the record says no trade, while
\* the price move, the snapshot and the history entry are made
C7_NoLiquidityNoTrade ==
    [][\A i \in SimIds :
          LET side == ArrivingSide(last_call'.arrival_rate)
              q == get_quotes(market_maker[i], order_book[i])
              scale == RMul(last_call'.volatility, RSqrt(last_call'.dt))
              moved == normal(AdvanceN(np_random, 2), Zero, scale).value
              new_mid == RAdd(order_book[i].mid_price,
                              RMul(moved, order_book[i].mid_price))
          IN  (/\ Stepped(i)
               /\ \/ side = "buy" /\ q.ask_size = Zero
                  \/ side = "sell" /\ q.bid_size = Zero) =>
              /\ market_maker'[i] = market_maker[i]
              /\ pnl_tracker'[i].trades = pnl_tracker[i].trades
              /\ ~Last(simulator'[i].history).trade_occurred
              /\ order_book'[i].mid_price = new_mid
              /\ pnl_tracker'[i].inventory_snapshots =
                    Append(pnl_tracker[i].inventory_snapshots,
                           <<simulator'[i].current_time, market_maker[i].inventory, new_mid>>)
              /\ Last(simulator'[i].history).inventory = market_maker[i].inventory
              /\ Last(simulator'[i].history).mid_price = new_mid]_vars

\* C7 witness: an order arrived while the maker, long and without a risk
\* policy, quoted no bid (only a sell order can have met a zero size); the step
\* recorded no trade and the mid moved
C7_OrderOnEmptyBid ==
    /\ market_maker[1].risk_manager = NoRiskManager
    /\ Len(simulator[1].history) >= 2
    /\ Len(last_call.draws) = 3
    /\ ~Last(simulator[1].history).trade_occurred
    /\ RLt(Zero, market_maker[1].inventory)
    /\ get_quotes(market_maker[1], order_book[1]).bid_size = Zero
    /\ Last(simulator[1].history).mid_price #
          simulator[1].history[Len(simulator[1].history) - 1].mid_price

\* the kill switch condition of a direct apply call
KillTriggered(call) ==
    /\ call.rm.enable_kill_switch
    /\ call.rm.drawdown_limit # None
    /\ RLe(call.cash_pnl, RNeg(RAbs(call.rm.drawdown_limit)))

\* C8: with the kill switch triggered, apply returns both sizes 0 and
\* is_active = false for every throttle setting and inventory
C8_KillSwitchPrecedence ==
    (risk_call.result # None /\ KillTriggered(risk_call)) =>
        /\ risk_call.result.bid_size = Zero
        /\ risk_call.result.ask_size = Zero
        /\ risk_call.result.is_active = FALSE

\* C8 witness: a triggered kill switch on a call with the throttle enabled,
\* non-zero sizes and an inventory beyond the limit
C8_KilledWithThrottle ==
    /\ risk_call.result # None
    /\ KillTriggered(risk_call)
    /\ risk_call.rm.enable_size_throttle
    /\ risk_call.bid_size # Zero
    /\ risk_call.ask_size # Zero
    /\ RLt(Zero, risk_call.max_inventory)
    /\ risk_call.inventory = R(30)

\* C9: is_active is false exactly when the kill switch is enabled, the limit
\* is set and cash_pnl <= -|drawdown_limit|; otherwise a size comes back zero
\* only if it was passed in as zero
C9_KillSwitchExactly ==
    risk_call.result # None =>
        /\ risk_call.result.is_active = ~KillTriggered(risk_call)
        /\ ~KillTriggered(risk_call) =>
              /\ risk_call.result.bid_size = Zero <=> risk_call.bid_size = Zero
              /\ risk_call.result.ask_size = Zero <=> risk_call.ask_size = Zero

\* C9 witness: cash_pnl exactly at the threshold of a limit configured negative
C9_AtThreshold ==
    /\ risk_call.result # None
    /\ risk_call.rm.enable_kill_switch
    /\ risk_call.rm.drawdown_limit = R(-50)
    /\ risk_call.cash_pnl = R(-50)
    /\ risk_call.result.is_active = FALSE

\* C10: apply returns the prices it was given, and get_quotes returns the
\* prices it returns for the same maker without a risk policy
C10_PricesUntouched ==
    /\ risk_call.result # None =>
          /\ risk_call.result.bid_price = risk_call.bid_price
          /\ risk_call.result.ask_price = risk_call.ask_price
    /\ quote_call # None =>
          LET bare == get_quotes([market_maker[1] EXCEPT !.risk_manager = NoRiskManager],
                                 order_book[1])
          IN  /\ quote_call.bid_price = bare.bid_price
              /\ quote_call.ask_price = bare.ask_price

\* C10 witness: get_quotes of a maker with inventory whose attached policy
\* killed both sizes
C10_KilledQuote ==
    /\ quote_call # None
    /\ market_maker[1].risk_manager # NoRiskManager
    /\ market_maker[1].inventory # Zero
    /\ market_maker[1].inventory_skew_factor # Zero
    /\ quote_call.bid_size = Zero
    /\ quote_call.ask_size = Zero

\* the throttle branch of a direct apply call
Throttled(call) ==
    /\ ~KillTriggered(call)
    /\ call.rm.enable_size_throttle
    /\ RLt(Zero, call.max_inventory)

\* the sizes apply returns for the arguments of call with another inventory
SizesAt(call, inventory) ==
    LET r == apply(call.rm, call.bid_price, call.bid_size, call.ask_price, call.ask_size,
                   inventory, call.max_inventory, call.cash_pnl)
    IN  <<r.bid_size, r.ask_size>>

\* C11: when the kill switch does not trigger, the throttle is enabled and
\* max_inventory > 0, both sizes are multiplied by
\* max(min_throttle, 1 - min(1, |inventory| / max_inventory)): each returned
\* size lies between min_throttle x size and size, is the same for inventory
\* and -inventory and does not grow with |inventory|; with max_inventory <= 0
\* the sizes come back unchanged
C11_SizeThrottle ==
    risk_call.result # None =>
        LET c == risk_call
            ratio == RDiv(RAbs(c.inventory), c.max_inventory)
            capped == IF RLe(One, ratio) THEN One ELSE ratio
            room == RSub(One, capped)
            scale == IF RLe(room, c.rm.min_throttle) THEN c.rm.min_throttle ELSE room
        IN  /\ Throttled(c) =>
                  /\ c.result.bid_size = RMul(c.bid_size, scale)
                  /\ c.result.ask_size = RMul(c.ask_size, scale)
                  /\ RLe(RMul(c.rm.min_throttle, c.bid_size), c.result.bid_size)
                  /\ RLe(c.result.bid_size, c.bid_size)
                  /\ RLe(RMul(c.rm.min_throttle, c.ask_size), c.result.ask_size)
                  /\ RLe(c.result.ask_size, c.ask_size)
                  /\ SizesAt(c, RNeg(c.inventory)) = <<c.result.bid_size, c.result.ask_size>>
                  /\ \A other \in RiskInventories :
                        RLe(RAbs(c.inventory), RAbs(other)) =>
                            /\ RLe(SizesAt(c, other)[1], c.result.bid_size)
                            /\ RLe(SizesAt(c, other)[2], c.result.ask_size)
            /\ (~KillTriggered(c) /\ RLe(c.max_inventory, Zero)) =>
                  /\ c.result.bid_size = c.bid_size
                  /\ c.result.ask_size = c.ask_size

\* C11 witness: a short inventory of half the limit halves both sizes
C11_HalfSize ==
    /\ risk_call.result # None
    /\ Throttled(risk_call)
    /\ risk_call.inventory = R(-10)
    /\ risk_call.max_inventory = R(20)
    /\ risk_call.bid_size = R(10)
    /\ risk_call.result.bid_size = R(5)
    /\ risk_call.result.ask_size = R(5)

\* C12: with the kill switch and the throttle both disabled, apply returns
\* the four quote values as given and is_active = true, for every
\* inventory, max_inventory and cash_pnl
C12_NoControlsPassThrough ==
    (/\ risk_call.result # None
     /\ ~risk_call.rm.enable_kill_switch
     /\ ~risk_call.rm.enable_size_throttle) =>
        risk_call.result = [bid_price |-> risk_call.bid_price,
                            bid_size |-> risk_call.bid_size,
                            ask_price |-> risk_call.ask_price,
                            ask_size |-> risk_call.ask_size,
                            is_active |-> TRUE]

\* C12 witness: both controls disabled on a call that either would have
\* changed: a limit is set, cash_pnl is below it and the inventory is beyond
\* max_inventory
C12_DisabledControls ==
    /\ risk_call.result # None
    /\ ~risk_call.rm.enable_kill_switch
    /\ ~risk_call.rm.enable_size_throttle
    /\ risk_call.rm.drawdown_limit = R(50)
    /\ risk_call.cash_pnl = R(-100)
    /\ risk_call.inventory = R(30)
    /\ risk_call.max_inventory = R(20)
    /\ risk_call.bid_size = R(10)
    /\ risk_call.result.bid_size = R(10)

C14_SkewDirection ==
    (quote_call # None /\ RLt(Zero, market_maker[1].inventory_skew_factor)) =>
        LET mm == market_maker[1]
            mid == order_book[1].mid_price
            bid_distance == RAbs(RSub(mid, quote_call.bid_price))
            ask_distance == RAbs(RSub(quote_call.ask_price, mid))
        IN  /\ RLt(Zero, mm.inventory) =>
                  /\ RLt(mm.quote_spread, ask_distance)
                  /\ RLt(bid_distance, mm.quote_spread)
            /\ RLt(mm.inventory, Zero) =>
                  /\ RLt(mm.quote_spread, bid_distance)
                  /\ RLt(ask_distance, mm.quote_spread)

\* C15: without a risk policy, bid_size is quote_size iff a full bid fill
\* keeps the inventory within [-max_inventory, max_inventory], else 0, and
\* ask_size likewise for a full ask fill; a size is 0 or quote_size
C15_QuoteSuppression ==
    (quote_call # None /\ market_maker[1].risk_manager = NoRiskManager) =>
        LET mm == market_maker[1]
            within(x) == RLe(RNeg(mm.max_inventory), x) /\ RLe(x, mm.max_inventory)
        IN  /\ quote_call.bid_size \in {Zero, mm.quote_size}
            /\ quote_call.ask_size \in {Zero, mm.quote_size}
            /\ quote_call.bid_size = mm.quote_size <=>
                  within(RAdd(mm.inventory, mm.quote_size))
            /\ quote_call.ask_size = mm.quote_size <=>
                  within(RSub(mm.inventory, mm.quote_size))

\* C15 witness: a long maker close to its limit quotes no bid and a full ask
C15_BidSuppressed ==
    /\ quote_call # None
    /\ market_maker[1].risk_manager = NoRiskManager
    /\ market_maker[1].inventory = R(10)
    /\ market_maker[1].max_inventory = R(15)
    /\ quote_call.bid_size = Zero
    /\ quote_call.ask_size = R(10)

\* C16: execute_bid_fill(price, qty) adds qty to inventory and total_bought
\* and price x qty to total_buy_value and leaves the sell totals alone;
\* execute_ask_fill(price, qty) subtracts qty from inventory, adds qty to
\* total_sold and price x qty to total_sell_value and leaves the buy totals
\* alone; neither changes the configuration or the order book
C16_FillBookkeeping ==
    [][market_maker'[1] # market_maker[1] =>
       LET old == market_maker[1]
           new == market_maker'[1]
           f == fill_call'
           notional == RMul(f.price, f.quantity)
       IN  /\ f.method = "execute_bid_fill" =>
                 /\ new.inventory = RAdd(old.inventory, f.quantity)
                 /\ new.total_buy_value = RAdd(old.total_buy_value, notional)
                 /\ new.total_bought = RAdd(old.total_bought, f.quantity)
                 /\ new.total_sell_value = old.total_sell_value
                 /\ new.total_sold = old.total_sold
           /\ f.method = "execute_ask_fill" =>
                 /\ new.inventory = RSub(old.inventory, f.quantity)
                 /\ new.total_sell_value = RAdd(old.total_sell_value, notional)
                 /\ new.total_sold = RAdd(old.total_sold, f.quantity)
                 /\ new.total_buy_value = old.total_buy_value
                 /\ new.total_bought = old.total_bought
           /\ new.quote_spread = old.quote_spread
           /\ new.quote_size = old.quote_size
           /\ new.max_inventory = old.max_inventory
           /\ new.inventory_skew_factor = old.inventory_skew_factor
           /\ new.risk_manager = old.risk_manager
           /\ order_book' = order_book]_vars

\* C16 witness: an ask fill of 5 @ 101 on a maker that had bought 10 @ 99.95
C16_SoldAfterBuying ==
    /\ fill_call # None
    /\ fill_call.method = "execute_ask_fill"
    /\ fill_call.quantity = R(5)
    /\ market_maker[1].inventory = R(5)
    /\ market_maker[1].total_bought = R(10)
    /\ market_maker[1].total_buy_value = Q(1999, 2)
    /\ market_maker[1].total_sold = R(5)
    /\ market_maker[1].total_sell_value = R(505)

MarketOrders == {"execute_market_buy", "execute_market_sell"}

\* a direct order-book call was made in this transition
BookCalled == book_call'.calls = book_call.calls + 1

\* C17: execute_market_buy(qty) / execute_market_sell(qty) return executed
\* quantity min(qty, depth_per_level) and the best ask / best bid of the mid
\* the book had when the call started
C17_MarketOrderResult ==
    book_call.method \in MarketOrders =>
        LET b == book_call.before
            price == IF book_call.method = "execute_market_buy"
                     THEN RAdd(b.mid_price, b.spread) ELSE RSub(b.mid_price, b.spread)
            executed == IF RLe(book_call.argument, b.depth_per_level)
                        THEN book_call.argument ELSE b.depth_per_level
        IN  book_call.outcome.returned = <<price, executed>>

\* C18: a market order with qty <= depth_per_level leaves the mid unchanged;
\* a buy with qty > depth_per_level raises it, strictly, by
\* (qty / depth_per_level - 1) x half_spread x 0.5 and a sell lowers it by
\* the same amount; a buy never lowers the mid and a sell never raises it
C18_PriceImpact ==
    [][(BookCalled /\ book_call'.method \in MarketOrders) =>
          LET old == order_book[1]
              new == order_book'[1]
              qty == book_call'.argument
              buy == book_call'.method = "execute_market_buy"
              moved == IF buy THEN RSub(new.mid_price, old.mid_price)
                       ELSE RSub(old.mid_price, new.mid_price)
          IN  /\ RLe(qty, old.depth_per_level) => new.mid_price = old.mid_price
              /\ RLt(old.depth_per_level, qty) =>
                    /\ RLt(Zero, moved)
                    /\ old.depth_per_level # Zero =>
                          moved = RMul(RMul(RSub(RDiv(qty, old.depth_per_level), One),
                                            old.spread), Q(1, 2))
              /\ RLe(Zero, moved)]_vars

\* C19: across update_mid_price, market orders and simulator steps the
\* half-spread, depth_per_level and num_levels never change, and best_bid /
\* best_ask stay at mid -/+ half_spread, best_ask - best_bid being the full
\* spread the book reports
C19_SpreadConstant ==
    [][LET old == order_book[1]
           new == order_book'[1]
       IN  /\ new.spread = old.spread
           /\ new.depth_per_level = old.depth_per_level
           /\ new.num_levels = old.num_levels
           /\ RSub(new.mid_price, get_best_bid(new)) = old.spread
           /\ RSub(get_best_ask(new), new.mid_price) = old.spread
           /\ RSub(get_best_ask(new), get_best_bid(new)) = get_bid_ask_spread(old)]_vars

\* C19 witness: a large market order moved the mid of a book that a
\* simulator step and an earlier call had already moved
C19_MovedBook ==
    /\ book_call.calls >= 2
    /\ book_call.method \in MarketOrders
    /\ book_call.outcome.returned # None
    /\ book_call.before.mid_price # R(100)
    /\ order_book[1].mid_price # book_call.before.mid_price
    /\ Len(simulator[1].history) = 1
    /\ RSub(get_best_ask(order_book[1]), get_best_bid(order_book[1])) =
          get_bid_ask_spread(book_call.before)

\* C20: no order-book call raises for a book and an argument inside the
\* ranges of the data model; the market orders return a pair also with
\* depth_per_level = 0 and qty > 0
C20_NoRaise ==
    book_call.outcome # None =>
        /\ book_call.outcome.raised = None
        /\ book_call.method \in MarketOrders => Len(book_call.outcome.returned) = 2

\* C21: get_average_buy_price / get_average_sell_price return None exactly
\* when total_bought / total_sold is zero and otherwise the value that,
\* multiplied by the quantity of that side, gives the accumulated notional; a
\* fill on one side leaves the other side's average as it was
C21_AveragePrices ==
    [][LET old == market_maker[1]
           new == market_maker'[1]
           read == api_call'
       IN  /\ (read.method = "get_average_buy_price" /\ new = old) =>
                 /\ read.returned = None <=> old.total_bought = Zero
                 /\ read.returned # None =>
                       RMul(read.returned, old.total_bought) = old.total_buy_value
           /\ (read.method = "get_average_sell_price" /\ new = old) =>
                 /\ read.returned = None <=> old.total_sold = Zero
                 /\ read.returned # None =>
                       RMul(read.returned, old.total_sold) = old.total_sell_value
           /\ new.total_bought # old.total_bought =>
                 get_average_sell_price(new) = get_average_sell_price(old)
           /\ new.total_sold # old.total_sold =>
                 get_average_buy_price(new) = get_average_buy_price(old)]_vars

\* C21 witness: after buying 10 @ 99.95 and 10 @ 100.05 and selling nothing
\* the average buy price read is 100 and the average sell price is unavailable
C21_AverageOfTwoBuys ==
    /\ api_call.method = "get_average_buy_price"
    /\ api_call.returned = R(100)
    /\ market_maker[1].total_bought = R(20)
    /\ market_maker[1].total_sold = Zero
    /\ get_average_sell_price(market_maker[1]) = None

\* a read was made in this transition (values returned by different methods
\* are of different kinds and are not compared)
ReadMade ==
    \/ api_call'.method # api_call.method
    \/ api_call'.returned # api_call.returned

\* the decomposition read in this transition, of a ledger the read left as
\* it was
ReadDecomposition ==
    /\ api_call'.method = "get_pnl_decomposition"
    /\ pnl_tracker' = pnl_tracker

\* C22: get_pnl_decomposition returns total_pnl = spread_capture +
\* inventory_pnl + adverse_selection, each component being what its own
\* getter returns on the same ledger, and a read leaves the ledger unchanged
C22_DecompositionClosure ==
    [][LET tr == pnl_tracker[1]
           d == api_call'.returned
       IN  /\ ReadMade => pnl_tracker' = pnl_tracker
           /\ ReadDecomposition =>
                 /\ d.total_pnl =
                       RAdd(RAdd(d.spread_capture, d.inventory_pnl), d.adverse_selection)
                 /\ d.spread_capture = get_spread_capture(tr)
                 /\ d.inventory_pnl = get_inventory_pnl(tr)
                 /\ d.adverse_selection = get_adverse_selection_cost(tr)]_vars

\* C22 witness: a decomposition read with three non-zero components: a buy
\* below mid followed by a lower mid, and a price move on a held inventory
C22_ThreeComponents ==
    /\ api_call.method = "get_pnl_decomposition"
    /\ api_call.returned = get_pnl_decomposition(pnl_tracker[1])
    /\ api_call.returned.spread_capture # Zero
    /\ api_call.returned.inventory_pnl # Zero
    /\ api_call.returned.adverse_selection # Zero
    /\ api_call.returned.total_pnl # api_call.returned.spread_capture

\* the ledger with every snapshot timestamp replaced by 0
WithoutTimes(tr) ==
    [tr EXCEPT !.inventory_snapshots =
        [k \in 1..Len(@) |-> <<Zero, @[k][2], @[k][3]>>]]

C25_SpreadCapture ==
    [][LET old == pnl_tracker[1].trades
           new == pnl_tracker'[1].trades
           n == Len(old)
           capture == get_spread_capture(pnl_tracker'[1])
       IN  /\ Len(new) = 0 => capture = Zero
           /\ Len(new) = n + 1 =>
                 LET t == new[n + 1]
                     edge == IF t.side = "buy" THEN RSub(t.mid_price, t.price)
                             ELSE RSub(t.price, t.mid_price)
                 IN  /\ t.spread_vs_mid = edge
                     /\ capture = RAdd(get_spread_capture(pnl_tracker[1]),
                                        RMul(t.quantity, edge))
                     /\ \A k \in 1..n : new[k].spread_vs_mid = old[k].spread_vs_mid
           /\ new = old => capture = get_spread_capture(pnl_tracker[1])
           /\ ReadDecomposition =>
                 api_call'.returned.spread_capture = get_spread_capture(pnl_tracker[1])]_vars

\* C25 witness: a buy and a sell of 5 @ 99.05 at mid 99, with snapshots
\* recorded: the buy loses 0.25, the sell earns it back
C25_BuyAboveMid ==
    /\ Len(pnl_tracker[1].trades) = 2
    /\ Len(pnl_tracker[1].inventory_snapshots) = 2
    /\ pnl_tracker[1].trades[1].side = "buy"
    /\ pnl_tracker[1].trades[1].spread_vs_mid = Q(-1, 20)
    /\ pnl_tracker[1].trades[2].side = "sell"
    /\ pnl_tracker[1].trades[2].spread_vs_mid = Q(1, 20)
    /\ api_call.method = "get_pnl_decomposition"
    /\ api_call.returned.spread_capture = Zero
    /\ api_call.returned.inventory_pnl # Zero

\* s is an initial part of t: same entries at the same positions
IsPrefix(s, t) == Len(s) <= Len(t) /\ \A k \in 1..Len(s) : t[k] = s[k]

\* C26: across step, run, record_trade, record_inventory_snapshot and the
\* read operations the trade list, the snapshot list and the history only
\* grow at the end: no length decreases and every entry present keeps its
\* position and content
C26_AppendOnly ==
    [][/\ IsPrefix(pnl_tracker[1].trades, pnl_tracker'[1].trades)
       /\ IsPrefix(pnl_tracker[1].inventory_snapshots, pnl_tracker'[1].inventory_snapshots)
       /\ IsPrefix(simulator[1].history, simulator'[1].history)]_vars

\* a summary read after steps and direct calls filled all three lists
C26_ReadAfterMixedCalls ==
    /\ api_call.method = "get_summary"
    /\ Len(simulator[1].history) = 2
    /\ Len(pnl_tracker[1].trades) = 2
    /\ Len(pnl_tracker[1].inventory_snapshots) = 3
    /\ pnl_tracker[1].trades[1].price = R(101)
    /\ pnl_tracker[1].inventory_snapshots[2][3] = R(99)
    /\ pnl_tracker[1].inventory_snapshots[2][1] = pnl_tracker[1].inventory_snapshots[1][1]

\* C27: each completed step appends exactly one StepRecord and exactly one
\* inventory snapshot, so the two lists have the same length, one entry per
\* step; the snapshot of a step is (time after advancing dt, inventory after
\* the step's trade, mid after the step's price move) and snapshot k agrees
\* with the time, inventory and mid_price of StepRecord k
C27_OneRecordPerStep ==
    [][LET history == simulator'[1].history
           snapshots == pnl_tracker'[1].inventory_snapshots
           record == Last(history)
           traded == IF ~record.trade_occurred THEN Zero
                     ELSE IF record.trade_side = "buy" THEN record.trade_quantity
                     ELSE RNeg(record.trade_quantity)
       IN  /\ Len(history) = Len(simulator[1].history) + 1
           /\ Len(snapshots) = Len(pnl_tracker[1].inventory_snapshots) + 1
           /\ Len(history) = Len(snapshots)
           /\ \A k \in 1..Len(history) :
                  snapshots[k] = <<history[k].time, history[k].inventory,
                                   history[k].mid_price>>
           /\ Last(snapshots)[1] = RAdd(simulator[1].current_time, last_call'.dt)
           /\ Last(snapshots)[2] = RAdd(market_maker[1].inventory, traded)
           /\ Last(snapshots)[2] = market_maker'[1].inventory
           /\ Last(snapshots)[3] = order_book'[1].mid_price]_vars

\* three steps, a trade in the second, and a last snapshot of a non-zero
\* inventory at a mid the third step moved
C27_ThreeSnapshots ==
    /\ Len(simulator[1].history) = 3
    /\ Len(pnl_tracker[1].inventory_snapshots) = 3
    /\ simulator[1].history[2].trade_occurred
    /\ simulator[1].history[3].mid_price # simulator[1].history[2].mid_price
    /\ pnl_tracker[1].inventory_snapshots[3][2] # Zero
    /\ pnl_tracker[1].inventory_snapshots[3][3] = order_book[1].mid_price

\* a run call completed in this transition
RunMade == api_call'.method = "run" /\ (api_call.method # "run" \/ api_call' # api_call)

\* C28: run(num_steps) makes exactly num_steps calls of step and returns the
\* history: history (and with it the snapshot list) grows by num_steps and
\* current_time by num_steps x dt; on a fresh simulator the returned history
\* has length num_steps and current_time is num_steps x dt
C28_RunLength ==
    [][RunMade =>
        LET num_steps == api_call'.argument.num_steps
            dt == api_call'.argument.dt
            elapsed == RMul(R(num_steps), dt)
        IN  /\ Len(simulator'[1].history) = Len(simulator[1].history) + num_steps
            /\ Len(pnl_tracker'[1].inventory_snapshots) =
                   Len(pnl_tracker[1].inventory_snapshots) + num_steps
            /\ simulator'[1].current_time = RAdd(simulator[1].current_time, elapsed)
            /\ api_call'.returned = simulator'[1].history
            /\ Len(simulator[1].history) = 0 =>
                   /\ Len(api_call'.returned) = num_steps
                   /\ simulator'[1].current_time = elapsed]_vars

\* a run of two steps of a quarter on a simulator that had already made a
\* step of length one
C28_SecondRun ==
    /\ api_call.method = "run"
    /\ api_call.argument.num_steps = 2
    /\ api_call.argument.dt = Q(1, 4)
    /\ api_call.returned = simulator[1].history
    /\ Len(simulator[1].history) = 3
    /\ simulator[1].history[1].time = One
    /\ simulator[1].current_time = Q(3, 2)

\* C29: steps never execute a fill against the order book: a step or run
\* changes nothing of the book but its mid, a single step leaves the mid at
\* a value the price-move draw alone produces from the old mid, and with
\* volatility 0 the mid stays where it was, whatever was filled and however
\* large the fills were relative to depth_per_level
C29_FillsBypassBook ==
    [][Len(simulator'[1].history) > Len(simulator[1].history) =>
        LET mid == order_book[1].mid_price
            scale == RMul(last_call'.volatility, RSqrt(last_call'.dt))
        IN  /\ order_book'[1] = [order_book[1] EXCEPT !.mid_price = order_book'[1].mid_price]
            /\ book_call' = book_call
            /\ Stepped(1) =>
                   \E state \in RngStates :
                       order_book'[1].mid_price =
                           RAdd(mid, RMul(normal(state, Zero, scale).value, mid))
            /\ last_call'.volatility = Zero => order_book'[1].mid_price = mid]_vars

\* two steps at volatility 0, each filling a quote of 8 on a book whose
\* levels hold 4, and the mid still at its initial value
C29_FillsBeyondDepth ==
    /\ Len(simulator[1].history) = 2
    /\ order_book[1].depth_per_level = R(4)
    /\ \A k \in 1..2 : /\ simulator[1].history[k].trade_occurred
                        /\ simulator[1].history[k].trade_quantity = R(8)
    /\ last_call.volatility = Zero
    /\ order_book[1].mid_price = R(100)
    /\ simulator[1].history[1].mid_price = R(100)

\* the maker of instance i with its risk policy detached
Detached(i) == [market_maker[i] EXCEPT !.risk_manager = NoRiskManager]

\* C30: a maker without a risk policy and a maker attached to a RiskManager
\* with kill switch and size throttle disabled behave alike: in equal fill
\* and order-book states get_quotes returns the same four values, and
\* simulators driven by either produce the same history under the same
\* random draws
C30_DisabledPolicyIsNoPolicy ==
    /\ (Detached(1) = Detached(2) /\ order_book[1] = order_book[2]) =>
           get_quotes(market_maker[1], order_book[1]) =
               get_quotes(market_maker[2], order_book[2])
    /\ (stream.seed[1] # None /\ stream.seed[1] = stream.seed[2]) =>
           LET n == IMin(stream.solo[1], stream.solo[2])
           IN  SubSeq(simulator[1].history, 1, n) = SubSeq(simulator[2].history, 1, n)

\* both simulators ran two steps on one seed; the second maker's policy has
\* a drawdown limit its cash PnL was below when the second step quoted, with
\* half of max_inventory held, and the second step traded
C30_LossUnderDisabledKill ==
    /\ stream.seed[1] # None
    /\ stream.seed[1] = stream.seed[2]
    /\ stream.solo[1] = 2
    /\ stream.solo[2] = 2
    /\ market_maker[2].risk_manager.drawdown_limit = R(50)
    /\ market_maker[2].max_inventory = R(16)
    /\ RLe(simulator[2].history[1].cash_pnl, R(-50))
    /\ simulator[2].history[1].inventory = R(8)
    /\ simulator[2].history[2].trade_occurred
    /\ simulator[1].history[2].trade_occurred
    /\ Detached(1) = Detached(2)
    /\ order_book[1] = order_book[2]

\* C31: on a simulator whose tracker received trades only from its own
\* steps get_summary changes no state and returns total_steps = len(history),
\* final_time = current_time, the mid, inventory, cash_pnl and total_pnl of
\* the last StepRecord, and num_trades = num_buys + num_sells = number of
\* StepRecords with trade_occurred; with an empty history it returns an
\* empty summary
C31_SummaryConsistent ==
    [][api_call'.method = "get_summary" =>
        LET summary == api_call'.returned
            history == simulator[1].history
        IN  /\ UNCHANGED <<np_random, order_book, market_maker, pnl_tracker, simulator>>
            /\ IF Len(history) = 0 THEN DOMAIN summary = {}
               ELSE /\ summary.total_steps = Len(history)
                    /\ summary.final_time = simulator[1].current_time
                    /\ summary.final_mid = Last(history).mid_price
                    /\ summary.final_inventory = Last(history).inventory
                    /\ summary.cash_pnl = Last(history).cash_pnl
                    /\ summary.total_pnl = Last(history).total_pnl
                    /\ summary.num_trades = summary.num_buys + summary.num_sells
                    /\ summary.num_trades =
                           Cardinality({k \in 1..Len(history) : history[k].trade_occurred})
                    /\ summary.num_buys =
                           Cardinality({k \in 1..Len(history) :
                                           history[k].trade_side = "buy"})]_vars

\* a summary of three steps, two of them with a trade, the last one moving
\* the mid and changing the inventory
C31_SummaryOfThreeSteps ==
    /\ api_call.method = "get_summary"
    /\ Len(simulator[1].history) = 3
    /\ api_call.returned.total_steps = 3
    /\ api_call.returned.num_trades = 2
    /\ api_call.returned.num_buys = 1
    /\ simulator[1].history[3].trade_occurred
    /\ simulator[1].history[3].mid_price # simulator[1].history[1].mid_price
    /\ simulator[1].history[3].inventory # simulator[1].history[1].inventory

\* C32: the initial_mid reported by get_summary is the mid price the order
\* book had before the first step (the configured initial mid), and
\* price_change is final_mid minus that mid
C32_InitialMid ==
    (api_call.method = "get_summary" /\ Len(simulator[1].history) > 0) =>
        /\ api_call.returned.initial_mid = RunInitialMid
        /\ api_call.returned.price_change =
               RSub(api_call.returned.final_mid, RunInitialMid)

\* the maker's kill switch is enabled and its cash PnL is at or below
\* -|drawdown_limit|
Killed(mm) ==
    /\ mm.risk_manager # None
    /\ mm.risk_manager.enable_kill_switch
    /\ mm.risk_manager.drawdown_limit # None
    /\ RLe(get_cash_pnl(mm), RNeg(RAbs(mm.risk_manager.drawdown_limit)))

\* C33: the kill switch latches: a step that starts with the kill switch
\* triggered quotes size 0 on both sides and trades nothing, leaves the
\* maker (inventory, cash PnL) and the trade list as they were, still moves
\* the price and appends a snapshot and a history entry, and ends with the
\* kill switch triggered again
C33_KillSwitchLatches ==
    [][Killed(market_maker[1]) =>
        LET q == get_quotes(market_maker[1], order_book[1])
        IN  /\ q.bid_size = Zero
            /\ q.ask_size = Zero
            /\ ~Last(simulator'[1].history).trade_occurred
            /\ market_maker'[1] = market_maker[1]
            /\ pnl_tracker'[1].trades = pnl_tracker[1].trades
            /\ Killed(market_maker'[1])
            /\ Len(simulator'[1].history) = Len(simulator[1].history) + 1
            /\ Len(pnl_tracker'[1].inventory_snapshots) =
                   Len(pnl_tracker[1].inventory_snapshots) + 1
            /\ last_call'.volatility # Zero =>
                   order_book'[1].mid_price # order_book[1].mid_price]_vars

\* a buy in the first step took the cash PnL below the limit; an order
\* arrived in the third step, found no quote, and the price moved on with
\* 8 units still held
C33_KilledWithInventory ==
    /\ Len(simulator[1].history) = 3
    /\ Killed(market_maker[1])
    /\ simulator[1].history[1].trade_occurred
    /\ ~simulator[1].history[2].trade_occurred
    /\ ~simulator[1].history[3].trade_occurred
    /\ Len(last_call.draws) = 3
    /\ market_maker[1].inventory = R(8)
    /\ Len(pnl_tracker[1].trades) = 1
    /\ simulator[1].history[3].mid_price # simulator[1].history[2].mid_price

\* C34: in every state reachable by simulator steps from inventory 0, with
\* quote_spread > 0 and inventory_skew_factor >= 0, the bid price returned
\* by get_quotes is strictly below the ask price, that is
\* quote_spread + inventory x inventory_skew_factor > 0
C34_QuotesNeverCross ==
    LET mm == market_maker[1]
        q == get_quotes(mm, order_book[1])
    IN  (RLt(Zero, mm.quote_spread) /\ RLe(Zero, mm.inventory_skew_factor)) =>
            /\ RLt(q.bid_price, q.ask_price)
            /\ RLt(Zero, RAdd(mm.quote_spread,
                              RMul(mm.inventory, mm.inventory_skew_factor)))

\* the mid price has not moved since the simulator was constructed
ConstantMid ==
    /\ order_book[1].mid_price = DefaultOrderBook.mid_price
    /\ \A k \in 1..Len(simulator[1].history) :
           simulator[1].history[k].mid_price = DefaultOrderBook.mid_price

\* C35: while the mid price has not moved (volatility 0), after every step
\* inventory_pnl and adverse_selection are 0 and the decomposition total,
\* then the spread capture alone, equals the maker's total_pnl at the mid;
\* it equals cash_pnl whenever the inventory is flat
C35_ConstantMidReconciles ==
    ConstantMid =>
        LET d == get_pnl_decomposition(pnl_tracker[1])
            mm == market_maker[1]
        IN  /\ d.inventory_pnl = Zero
            /\ d.adverse_selection = Zero
            /\ d.total_pnl = d.spread_capture
            /\ d.total_pnl = get_total_pnl(mm, order_book[1].mid_price)
            /\ mm.inventory = Zero => d.total_pnl = get_cash_pnl(mm)

\* three steps at a constant mid: flat after a round trip that earned
\* money, then a position again
C35_RoundTripThenPosition ==
    /\ ConstantMid
    /\ Len(simulator[1].history) = 3
    /\ simulator[1].history[2].inventory = Zero
    /\ simulator[1].history[2].cash_pnl # Zero
    /\ simulator[1].history[2].cash_pnl = simulator[1].history[2].total_pnl
    /\ market_maker[1].inventory # Zero
    /\ Len(pnl_tracker[1].trades) = 3

\* quantity bought minus quantity sold over the first n trades of a ledger
RECURSIVE LedgerPosition(_, _)
LedgerPosition(trades, n) ==
    IF n = 0 THEN Zero
    ELSE RAdd(LedgerPosition(trades, n - 1),
              IF trades[n].side = "buy" THEN trades[n].quantity
              ELSE RNeg(trades[n].quantity))

\* C36: after any sequence of fills, direct or made by simulator steps, on a
\* new MarketMaker, inventory = total_bought - total_sold and neither total
\* has decreased; while all fills came from the simulator's steps the
\* inventory is the quantity bought minus the quantity sold in the
\* tracker's ledger
C36_PositionBookkeeping ==
    [][LET old == market_maker[1]
           new == market_maker'[1]
           trades == pnl_tracker'[1].trades
       IN  /\ new.inventory = RSub(new.total_bought, new.total_sold)
           /\ RLe(old.total_bought, new.total_bought)
           /\ RLe(old.total_sold, new.total_sold)
           /\ DOMAIN fill_call' = {} =>
                  /\ new.inventory = LedgerPosition(trades, Len(trades))
                  /\ new.inventory = Last(simulator'[1].history).inventory]_vars

\* three steps that traded 8 each time, on both sides, and a direct fill of
\* 5 on either side after them
C36_StepsThenDirectFills ==
    /\ Len(simulator[1].history) = 3
    /\ Len(pnl_tracker[1].trades) = 3
    /\ \E j, k \in 1..3 : /\ pnl_tracker[1].trades[j].side = "buy"
                           /\ pnl_tracker[1].trades[k].side = "sell"
    /\ DOMAIN fill_call # {}
    /\ RAdd(market_maker[1].total_bought, market_maker[1].total_sold) = R(34)
    /\ market_maker[1].inventory = simulator[1].history[3].inventory
    /\ market_maker[1].inventory # Zero

\* 0 < quote_size <= max_inventory, the kill switch is not triggered, and
\* the throttle, if enabled, has min_throttle > 0
CanQuote(mm) ==
    /\ RLt(Zero, mm.quote_size)
    /\ RLe(mm.quote_size, mm.max_inventory)
    /\ ~Killed(mm)
    /\ \/ mm.risk_manager = None
       \/ ~mm.risk_manager.enable_size_throttle
       \/ RLt(Zero, mm.risk_manager.min_throttle)

\* C37: in every state reachable by simulator steps from inventory 0, with
\* 0 < quote_size <= max_inventory and the kill switch not triggered, at
\* least one of bid_size and ask_size is non-zero, and the side that reduces
\* |inventory| is quoted: the ask when long, the bid when short
C37_NoQuotingDeadlock ==
    LET mm == market_maker[1]
        q == get_quotes(mm, order_book[1])
    IN  CanQuote(mm) =>
            /\ RLt(Zero, q.bid_size) \/ RLt(Zero, q.ask_size)
            /\ RLt(Zero, mm.inventory) => RLt(Zero, q.ask_size)
            /\ RLt(mm.inventory, Zero) => RLt(Zero, q.bid_size)

\* long 8 of at most 12 under a size throttle: no bid, and an ask of a third
\* of the quote size
C37_ThrottledAtLimit ==
    /\ Len(simulator[1].history) > 0
    /\ CanQuote(market_maker[1])
    /\ market_maker[1].inventory = R(8)
    /\ market_maker[1].max_inventory = R(12)
    /\ get_quotes(market_maker[1], order_book[1]).bid_size = Zero
    /\ get_quotes(market_maker[1], order_book[1]).ask_size = Q(8, 3)

\* C38: a step makes at most one trade, a full fill of the quoted size: with
\* a trade the tracker gains exactly one trade whose quantity is the quoted
\* size of the side that was hit and the inventory moves by that quantity,
\* down for a lifted ask (side = sell), up for a hit bid (side = buy);
\* without a trade inventory and trade list are unchanged; the number of
\* trades never exceeds the number of steps
C38_OneFullFillPerStep ==
    [][LET q == get_quotes(market_maker[1], order_book[1])
           record == Last(simulator'[1].history)
           trades == pnl_tracker'[1].trades
           inventory == market_maker[1].inventory
       IN  /\ IF record.trade_occurred
              THEN /\ Len(trades) = Len(pnl_tracker[1].trades) + 1
                   /\ SubSeq(trades, 1, Len(trades) - 1) = pnl_tracker[1].trades
                   /\ Last(trades).side = record.trade_side
                   /\ Last(trades).quantity = record.trade_quantity
                   /\ Last(trades).side = "sell" =>
                          /\ Last(trades).quantity = q.ask_size
                          /\ market_maker'[1].inventory = RSub(inventory, q.ask_size)
                   /\ Last(trades).side = "buy" =>
                          /\ Last(trades).quantity = q.bid_size
                          /\ market_maker'[1].inventory = RAdd(inventory, q.bid_size)
                   /\ Last(trades).side \in {"buy", "sell"}
              ELSE /\ trades = pnl_tracker[1].trades
                   /\ market_maker'[1].inventory = inventory
           /\ Len(trades) <= Len(simulator'[1].history)]_vars

\* three steps and two trades, the second a fill of a throttled ask of 4
C38_ThrottledFill ==
    /\ Len(simulator[1].history) = 3
    /\ Len(pnl_tracker[1].trades) = 2
    /\ pnl_tracker[1].trades[1].side = "buy"
    /\ pnl_tracker[1].trades[1].quantity = R(8)
    /\ pnl_tracker[1].trades[2].side = "sell"
    /\ pnl_tracker[1].trades[2].quantity = R(4)
    /\ market_maker[1].inventory = R(4)

\* C39: the StepRecord a step appends is consistent: trade_side, trade_price
\* and trade_quantity are present iff trade_occurred; when present the
\* price is the record's ask_price for side = sell and its bid_price for
\* side = buy, and the quantity is positive; cash_pnl and total_pnl are the
\* maker's after the step's trade, total_pnl at the record's post-move mid;
\* the record's time is after the previous record's for dt > 0
C39_StepRecordConsistent ==
    [][LET history == simulator'[1].history
           record == Last(history)
           mm == market_maker'[1]
       IN  /\ record.trade_occurred <=> record.trade_side # "none"
           /\ record.trade_occurred <=> record.trade_price # None
           /\ record.trade_occurred <=> record.trade_quantity # None
           /\ record.trade_occurred =>
                  /\ record.trade_side \in {"buy", "sell"}
                  /\ record.trade_side = "sell" => record.trade_price = record.ask_price
                  /\ record.trade_side = "buy" => record.trade_price = record.bid_price
                  /\ RLt(Zero, record.trade_quantity)
           /\ record.mid_price = order_book'[1].mid_price
           /\ record.cash_pnl = get_cash_pnl(mm)
           /\ record.total_pnl = get_total_pnl(mm, record.mid_price)
           /\ record.inventory = mm.inventory
           /\ (Len(history) > 1 /\ RLt(Zero, last_call'.dt)) =>
                  RLt(history[Len(history) - 1].time, record.time)]_vars

\* a record with a trade after a record without one, the position valued
\* at a mid the step moved, a quarter of a time unit after the previous one
C39_TradeAfterQuietStep ==
    /\ Len(simulator[1].history) = 3
    /\ ~simulator[1].history[2].trade_occurred
    /\ simulator[1].history[2].trade_price = None
    /\ simulator[1].history[3].trade_occurred
    /\ simulator[1].history[3].trade_side = "sell"
    /\ simulator[1].history[3].total_pnl # simulator[1].history[3].cash_pnl
    /\ simulator[1].history[3].time = RAdd(simulator[1].history[2].time, Q(1, 4))

====
